---- MODULE Spec2Model ----
(***************************************************************************)
(* Model of the video meme services of this repository: the drawtext       *)
(* escaper, the filter-graph builders (addMemeText, mixVideo,              *)
(* addAudioAndOverlayToVideo) and the request handlers that download,      *)
(* render, clean up and respond.  src/server.js is the current service;    *)
(* src/unnamed/part_00N hold its sibling variants, modelled under names    *)
(* that carry the file's suffix.                                           *)
(*                                                                         *)
(* A string is a sequence of one-character strings.                        *)
(***************************************************************************)
EXTENDS Integers, Sequences, FiniteSets, TLC

VARIABLES
    escPc,      \* escaper harness: "off" | "in" | "done"
    escIn,      \* the text handed to escapeForDrawtext
    escOut,     \* the literal it returned
    escBy,      \* which escaper produced escOut
    bPc,        \* caption-graph harness: "off" | "in" | "done"
    bTop,       \* topText
    bBottom,    \* bottomText
    bProject,   \* projectName
    bHeight,    \* the probed frame height
    bCmd,       \* the engine invocation addMemeText assembled
    mPc,        \* audio-graph harness: "off" | "in" | "done"
    mDialogue,  \* a dialogue track is supplied
    mMusic,     \* a music track is supplied
    mVideoAudio,\* the video has an audio stream of its own
    mOverlay,   \* an overlay image is supplied
    mMusicDur,  \* the probed music duration, in half seconds
    mCmd,       \* the engine invocation the mixer assembled
    jHandler,   \* request harness: the handler that serves the request
    jReq,       \* the request's fields
    jPlan,      \* the steps the handler awaits for this request, in order
    jPc,        \* the step of the handler's plan that is next
    jPhase,     \* "off" | "run" | "rendering" | "pending" | "catch" | "done"
    jDisk,      \* per file: "absent" | "partial" | "empty" | "whole"
    jAudio,     \* per file: the audio it carries, "none" | "source" | "track" | "mixed"
    jFetches,   \* remote fetches started
    jResp,      \* HTTP status of the response sent, 0 before it
    jFailedAt,  \* the step that threw, "" when none did
    jStatus,    \* videoJobs entry: "none" | "processing" | "stitched" | "failed"
    jLinks,     \* output files whose download links were handed out
    jBody,      \* the JSON body of the response sent, <<>> before it
    jSent,      \* how many responses the handler has sent
    jReported,  \* the status the last status query of the job's id reported
    jQueries,   \* how many status queries were answered
    lPc,        \* layout harness: "off" | "in" | "done"
    lHeight,    \* the frame height
    lLines,     \* maxLines, the line count the size is computed for
    lFont,      \* the font size computed last
    pPc,        \* probe harness: "off" | "in" | "pending" | "done"
    pBy,        \* the probe function called, "none" before the call
    pOutcome,   \* what ffprobe hands the callback: err and metadata.streams
    pPromise,   \* the promise the probe returned: state, error, value
    pRaised,    \* an exception left the ffprobe callback
    sJobs,      \* videoJobs: per uuid the entry, NoJob when there is none
    sPc,        \* per uuid: the await processVideoJob(uuid) is waiting at
    sFiles,     \* the output files written, as <<uuid, version>>
    sResp,      \* HTTP status of the last response, 0 before any
    sActor,     \* the uuid of the job that took the last step, 0 for none
    sTouched,   \* the keys of videoJobs the last step read or wrote
    sBody,      \* the entry the last status read answered with, NoJob for none
    wPc,        \* wrap harness: "off" | "in" | "done"
    wBy,        \* the wrapText applied
    wText,      \* its text
    wMax,       \* its maxCharsPerLine
    wOut,       \* what it returned
    tPc,        \* stitch harness: "off" | "sort" | "download" | "stitch" |
                \* "done" | "failed"
    tVideos,    \* the videos array of the request
    tSorted,    \* sortedVideos
    tDisk,      \* per path of the job directory: the URL whose body it holds
    tPaths,     \* videoPaths
    tCmd        \* the concat invocation of stitchVideos

escVars == <<escPc, escIn, escOut, escBy>>
bVars == <<bPc, bTop, bBottom, bProject, bHeight, bCmd>>
mVars == <<mPc, mDialogue, mMusic, mVideoAudio, mOverlay, mMusicDur, mCmd>>

jVars == <<jHandler, jReq, jPlan, jPc, jPhase, jDisk, jAudio, jFetches, jResp,
           jFailedAt, jStatus, jLinks, jBody, jSent, jReported, jQueries>>

lVars == <<lPc, lHeight, lLines, lFont>>

pVars == <<pPc, pBy, pOutcome, pPromise, pRaised>>

sVars == <<sJobs, sPc, sFiles, sResp, sActor, sTouched, sBody>>

wVars == <<wPc, wBy, wText, wMax, wOut>>

tVars == <<tPc, tVideos, tSorted, tDisk, tPaths, tCmd>>

vars == <<escVars, bVars, mVars, jVars, lVars, pVars, sVars, wVars, tVars>>

----------------------------------------------------------------------------
(* Characters *)

BS == "\\"
SQ == "'"
COLON == ":"
LBR == "["
RBR == "]"
COMMA == ","
SEMI == ";"
NL == "\n"
SP == " "

\* Longest enumerated escaper input.
MaxLen == 3

\* The metacharacters the escaper is about, and one plain letter.
EscAlphabet == {"a", BS, SQ, COLON, LBR, RBR, COMMA, SEMI, NL}

RECURSIVE StringsUpTo(_, _)
StringsUpTo(A, n) ==
    IF n = 0 THEN {<<>>}
    ELSE LET S == StringsUpTo(A, n - 1)
         IN  S \cup {<<c>> \o s : c \in A, s \in {t \in S : Len(t) = n - 1}}

\* it's: a\test
FixedVector == <<"i", "t", SQ, "s", COLON, SP, "a", BS, "t", "e", "s", "t">>

EscInputs == StringsUpTo(EscAlphabet, MaxLen) \cup {FixedVector}

----------------------------------------------------------------------------
(* String.prototype.replace(/c/g, r) for a one-character pattern c *)

\* Every character is looked at once, left to right; the halves are
\* rewritten independently, which keeps the evaluation shallow.
RECURSIVE ReplaceAll(_, _, _)
ReplaceAll(s, c, r) ==
    IF Len(s) = 0 THEN <<>>
    ELSE IF Len(s) = 1 THEN (IF s[1] = c THEN r ELSE s)
    ELSE ReplaceAll(SubSeq(s, 1, Len(s) \div 2), c, r)
         \o ReplaceAll(SubSeq(s, Len(s) \div 2 + 1, Len(s)), c, r)

escapeForDrawtext_BackslashLast(text) ==
    IF text = <<>> THEN <<>>
    ELSE LET e1 == ReplaceAll(text, SQ, <<SQ, BS, BS, BS, BS, SQ, SQ>>)
             e2 == ReplaceAll(e1, COLON, <<BS, BS, COLON>>)
             e3 == ReplaceAll(e2, NL, <<BS, "n">>)
         IN  ReplaceAll(e3, BS, <<BS, BS, BS, BS>>)

\* server.js: the replacement passes in the order the code runs them.
escapeForDrawtext(text) ==
    IF text = <<>> THEN <<>>
    ELSE LET e1 == ReplaceAll(text, BS, <<BS, BS, BS, BS>>)
             e2 == ReplaceAll(e1, SQ, <<SQ, BS, BS, BS, BS, SQ, SQ>>)
             e3 == ReplaceAll(e2, COLON, <<BS, BS, COLON>>)
             e4 == ReplaceAll(e3, LBR, <<BS, BS, LBR>>)
             e5 == ReplaceAll(e4, RBR, <<BS, BS, RBR>>)
             e6 == ReplaceAll(e5, COMMA, <<BS, BS, COMMA>>)
             e7 == ReplaceAll(e6, SEMI, <<BS, BS, SEMI>>)
         IN  ReplaceAll(e7, NL, <<BS, "n">>)

\* part_003: backslash, then colon, then single quote.
escapeForDrawtext_part_003(text) ==
    LET e1 == ReplaceAll(text, BS, <<BS, BS, BS, BS>>)
        e2 == ReplaceAll(e1, COLON, <<BS, COLON>>)
    IN  ReplaceAll(e2, SQ, <<BS, SQ>>)

\* part_001 escapeForDrawtext: newline onto itself, backslash, single
\* quote, colon, then newline.
escapeForDrawtext_part_001(text) ==
    IF text = <<>> THEN <<>>
    ELSE LET e0 == ReplaceAll(text, NL, <<NL>>)
             e1 == ReplaceAll(e0, BS, <<BS, BS>>)
             e2 == ReplaceAll(e1, SQ, <<SQ, BS, BS, SQ, SQ>>)
             e3 == ReplaceAll(e2, COLON, <<BS, COLON>>)
         IN  ReplaceAll(e3, NL, <<BS, "n">>)

----------------------------------------------------------------------------
(* The media engine's reading of a quoted option value.  The filter-graph  *)
(* parser and the option parser each take a token: outside quotes a        *)
(* backslash makes the next character literal, a single quote opens a      *)
(* span that runs verbatim to the next single quote, and an unquoted       *)
(* terminator ends the token.  drawtext then expands the text, where a     *)
(* backslash again makes the next character literal.                       *)

GraphTerm == {LBR, RBR, COMMA, SEMI}
OptTerm == {COLON}

\* The token of s from position i: ok is FALSE when the token does not end
\* exactly at the end of s (a terminator cuts it short, or a quote or a
\* backslash is left open and would run into the text that follows).
\* out is what has been read so far.
RECURSIVE avGetToken(_, _, _, _, _)
avGetToken(s, i, inq, term, out) ==
    IF i > Len(s) THEN [out |-> out, ok |-> ~inq]
    ELSE IF inq THEN
        IF s[i] = SQ THEN avGetToken(s, i + 1, FALSE, term, out)
        ELSE avGetToken(s, i + 1, TRUE, term, Append(out, s[i]))
    ELSE IF s[i] = BS THEN
        IF i = Len(s) THEN [out |-> out, ok |-> FALSE]
        ELSE avGetToken(s, i + 2, FALSE, term, Append(out, s[i + 1]))
    ELSE IF s[i] = SQ THEN avGetToken(s, i + 1, TRUE, term, out)
    ELSE IF s[i] \in term THEN [out |-> out, ok |-> FALSE]
    ELSE avGetToken(s, i + 1, FALSE, term, Append(out, s[i]))

RECURSIVE expandText(_)
expandText(s) ==
    IF s = <<>> THEN <<>>
    ELSE IF Head(s) = BS /\ Len(s) > 1
         THEN <<s[2]>> \o expandText(Tail(Tail(s)))
         ELSE <<Head(s)>> \o expandText(Tail(s))

\* What no text equals: the engine rejects the graph or reads past the literal.
Invalid == <<"<invalid>">>

\* text='<lit>' as the engine renders it.
engineParse(lit) ==
    LET g == avGetToken(<<SQ>> \o lit \o <<SQ>>, 1, FALSE, GraphTerm, <<>>)
    IN  IF ~g.ok THEN Invalid
        ELSE LET o == avGetToken(g.out, 1, FALSE, OptTerm, <<>>)
             IN  IF ~o.ok THEN Invalid ELSE expandText(o.out)

----------------------------------------------------------------------------
(* Text helpers: String.prototype.trim and split *)

IsWs(c) == c \in {SP, NL}

NonWsPos(s) == {i \in 1..Len(s) : ~IsWs(s[i])}

SetMin(S) == CHOOSE x \in S : \A y \in S : x <= y
SetMax(S) == CHOOSE x \in S : \A y \in S : y <= x

Trim(s) ==
    IF NonWsPos(s) = {} THEN <<>>
    ELSE SubSeq(s, SetMin(NonWsPos(s)), SetMax(NonWsPos(s)))

\* s.split(c): the pieces between the occurrences of c; one empty piece for ''.
Split(s, c) ==
    LET at == {i \in 1..Len(s) : s[i] = c}
        cut(k) == IF k = 0 THEN 0
                  ELSE IF k = Cardinality(at) + 1 THEN Len(s) + 1
                  ELSE CHOOSE i \in at : Cardinality({j \in at : j < i}) = k - 1
    IN  [k \in 1..(Cardinality(at) + 1) |-> SubSeq(s, cut(k - 1) + 1, cut(k) - 1)]

\* server.js wrapText, the word-boundary branch (the texts of the model hold
\* no CJK character): a word opens a new line when it does not fit and the
\* line is not empty.
RECURSIVE wrapWords(_, _, _, _)
wrapWords(words, wrappedText, currentLineLength, maxCharsPerLine) ==
    IF words = <<>> THEN wrappedText
    ELSE LET word == Head(words)
         IN  IF currentLineLength + Len(word) + 1 > maxCharsPerLine
                /\ currentLineLength > 0
             THEN wrapWords(Tail(words), wrappedText \o <<NL>> \o word \o <<SP>>,
                            Len(word) + 1, maxCharsPerLine)
             ELSE wrapWords(Tail(words), wrappedText \o word \o <<SP>>,
                            currentLineLength + Len(word) + 1, maxCharsPerLine)

wrapText(text, maxCharsPerLine) ==
    IF text = <<>> THEN <<>>
    ELSE Trim(wrapWords(Split(text, SP), <<>>, 0, maxCharsPerLine))

\* part_001 wrapText: the same loop without the "line is not empty" test.
RECURSIVE wrapWords_part_001(_, _, _, _)
wrapWords_part_001(words, wrappedText, currentLineLength, maxCharsPerLine) ==
    IF words = <<>> THEN wrappedText
    ELSE LET word == Head(words)
         IN  IF currentLineLength + Len(word) + 1 > maxCharsPerLine
             THEN wrapWords_part_001(Tail(words),
                                     wrappedText \o <<NL>> \o word \o <<SP>>,
                                     Len(word) + 1, maxCharsPerLine)
             ELSE wrapWords_part_001(Tail(words), wrappedText \o word \o <<SP>>,
                                     currentLineLength + Len(word) + 1,
                                     maxCharsPerLine)

wrapText_part_001(text, maxCharsPerLine) ==
    IF text = <<>> THEN <<>>
    ELSE Trim(wrapWords_part_001(Split(text, SP), <<>>, 0, maxCharsPerLine))

NonBlank(line) == Trim(line) # <<>>

\* wrapped.split('\n').filter(line => line.trim())
wrappedLines(wrapped) == SelectSeq(Split(wrapped, NL), NonBlank)

Max(a, b) == IF a >= b THEN a ELSE b

----------------------------------------------------------------------------
(* A filter graph is the sequence of the tokens of its text: stream labels *)
(* [v], filters name=args, the chain separator ; and the filter separator  *)
(* , inside a chain.                                                       *)

Lab(l) ==
    [k |-> "label", v |-> l, args |-> "", text |-> <<>>, fontsize |-> 0,
     y |-> 0, inputs |-> 0, st |-> 0]

Flt(op, a) ==
    [k |-> "filter", v |-> op, args |-> a, text |-> <<>>, fontsize |-> 0,
     y |-> 0, inputs |-> 0, st |-> 0]

\* amix / amerge with its inputs=n option
Mix(op, a, n) ==
    [k |-> "filter", v |-> op, args |-> a, text |-> <<>>, fontsize |-> 0,
     y |-> 0, inputs |-> n, st |-> 0]

\* afade=t=dir:st=start:d=...
Fade(dir, start) ==
    [k |-> "filter", v |-> "afade", args |-> dir, text |-> <<>>, fontsize |-> 0,
     y |-> 0, inputs |-> 0, st |-> start]

\* drawtext with text='lit', fontsize=fs, y=yPos
Draw(lit, fs, yPos) ==
    [k |-> "filter", v |-> "drawtext", args |-> "", text |-> lit,
     fontsize |-> fs, y |-> yPos, inputs |-> 0, st |-> 0]

Sep ==
    [k |-> "sep", v |-> ";", args |-> "", text |-> <<>>, fontsize |-> 0,
     y |-> 0, inputs |-> 0, st |-> 0]

Comma ==
    [k |-> "comma", v |-> ",", args |-> "", text |-> <<>>, fontsize |-> 0,
     y |-> 0, inputs |-> 0, st |-> 0]

\* Array.prototype.join over the parts of a graph
RECURSIVE Join(_, _)
Join(parts, sep) ==
    IF parts = <<>> THEN <<>>
    ELSE IF Len(parts) = 1 THEN Head(parts)
    ELSE Head(parts) \o sep \o Join(Tail(parts), sep)

\* An engine invocation: who built it, whether the file was copied instead of
\* rendered, the inputs in the order they were attached, the graph, the -map
\* directives, the codecs and -shortest.
Cmd(by, copied, ins, graph, maps, cv, ca, shortest) ==
    [by |-> by, copied |-> copied, ins |-> ins, graph |-> graph, maps |-> maps,
     cv |-> cv, ca |-> ca, shortest |-> shortest]

NoCmd == Cmd("none", FALSE, <<>>, <<>>, <<>>, "", "", FALSE)

----------------------------------------------------------------------------
(* addMemeText: the caption and branding graph *)

maxCharsPerLine45 == 45
baseDivisor == 12
verticalCompressionFactor == 2
verticalOffset == 20
lineGap == 5
estimatedBlackBarHeight == 100
brandingFontSize == 18
brandingMargin == 20

\* A y the graph leaves to the engine as an expression (h-text_h-20 and the like).
ExprY == 0 - 1

lunaFunMemes == <<"l", "u", "n", "a", ".", "f", "u", "n", "/", "m", "e", "m", "e", "s">>
lunaFun == <<"l", "u", "n", "a", ".", "f", "u", "n">>

VLabel(prefix, n) == prefix \o ToString(n)

\* The drawtext parts of one caption block: part i reads the label the part
\* before it wrote (cur for the first) and writes prefix<counter + i - 1>.
lineParts(lits, cur, prefix, counter, fs, y0, lh) ==
    [i \in 1..Len(lits) |->
        <<Lab(IF i = 1 THEN cur ELSE VLabel(prefix, counter + i - 2)),
          Draw(lits[i], fs, y0 + (i - 1) * lh),
          Lab(VLabel(prefix, counter + i - 1))>>]

labelAfter_Stale(lits, cur, prefix, counter) == cur

labelAfter(lits, cur, prefix, counter) ==
    IF lits = <<>> THEN cur ELSE VLabel(prefix, counter + Len(lits) - 1)

\* fontSizeFor with the compression added to the size instead of the divisor.
fontSizeFor_Added(height, maxLines) ==
    height \div baseDivisor + (maxLines - 1) * verticalCompressionFactor

\* fontSizeFor without the compression by line count.
fontSizeFor_BaseOnly(height, maxLines) ==
    height \div baseDivisor

fontSizeFor(height, maxLines) ==
    height \div (baseDivisor + (maxLines - 1) * verticalCompressionFactor)

\* server.js addMemeText, from the probed height to the invocation.
addMemeText(topText, bottomText, projectName, height) ==
    LET needsMemeText == topText # <<>> \/ bottomText # <<>>
        topLines == wrappedLines(wrapText(topText, maxCharsPerLine45))
        bottomLines == wrappedLines(wrapText(bottomText, maxCharsPerLine45))
        maxLines == IF needsMemeText
                    THEN Max(Max(Len(topLines), Len(bottomLines)), 1)
                    ELSE 1
        fontSize == fontSizeFor(height, maxLines)
        lineHeight == fontSize + lineGap
        topLits == IF needsMemeText /\ topText # <<>>
                   THEN [i \in 1..Len(topLines) |-> escapeForDrawtext(topLines[i])]
                   ELSE <<>>
        bottomLits == IF needsMemeText /\ bottomText # <<>>
                      THEN [i \in 1..Len(bottomLines) |->
                               escapeForDrawtext(bottomLines[i])]
                      ELSE <<>>
        topParts == lineParts(topLits, "v1", "v", 2, fontSize, verticalOffset,
                              lineHeight)
        cur1 == labelAfter(topLits, "v1", "v", 2)
        counter1 == 2 + Len(topLits)
        totalBottomHeight == Len(bottomLines) * lineHeight
        bottomParts == lineParts(bottomLits, cur1, "v", counter1, fontSize,
                                 height - totalBottomHeight
                                     - estimatedBlackBarHeight,
                                 lineHeight)
        cur2 == labelAfter(bottomLits, cur1, "v", counter1)
        brandingText == IF projectName # <<>>
                        THEN lunaFunMemes \o <<"/">> \o projectName
                        ELSE lunaFunMemes
        filterParts ==
            << <<Flt("movie", ""), Lab("overlay")>>,
               <<Lab("0:v"), Lab("overlay"), Flt("overlay", ""), Lab("v1")>> >>
            \o topParts \o bottomParts
            \o << <<Lab(cur2),
                    Draw(escapeForDrawtext(brandingText), brandingFontSize,
                         height - brandingFontSize - brandingMargin),
                    Lab("vout")>> >>
    IN  Cmd("server.js", FALSE, <<"video">>, Join(filterParts, <<Sep>>), <<"[vout]">>,
            "libx264", "copy", FALSE)

\* part_003 and part_006 share this escaper text.
escapeForDrawtext_part_006(text) ==
    LET e1 == ReplaceAll(text, BS, <<BS, BS, BS, BS>>)
        e2 == ReplaceAll(e1, COLON, <<BS, COLON>>)
    IN  ReplaceAll(e2, SQ, <<BS, SQ>>)

fontDivisor14 == 14

\* part_003 addMemeText: one drawtext per caption, the texts unwrapped.
addMemeText_part_003(topText, bottomText, height) ==
    IF topText = <<>> /\ bottomText = <<>>
    THEN Cmd("part_003", TRUE, <<>>, <<>>, <<>>, "", "", FALSE)
    ELSE LET fontSize == height \div fontDivisor14
             topFilter == Draw(escapeForDrawtext_part_003(topText), fontSize,
                               verticalOffset)
             bottomFilter == Draw(escapeForDrawtext_part_003(bottomText),
                                  fontSize, ExprY)
             filterChain ==
                 IF topText # <<>> /\ bottomText # <<>>
                 THEN <<Lab("0:v"), topFilter, Lab("v_temp"), Sep,
                        Lab("v_temp"), bottomFilter, Lab("v_out")>>
                 ELSE IF topText # <<>>
                 THEN <<Lab("0:v"), topFilter, Lab("v_out")>>
                 ELSE <<Lab("0:v"), bottomFilter, Lab("v_out")>>
         IN  Cmd("part_003", FALSE, <<"video">>, filterChain, <<"[v_out]">>, "libx264",
                 "copy", FALSE)

\* part_006 addMemeText: the chain is grown by string appends.
addMemeText_part_006(topText, bottomText, height) ==
    IF topText = <<>> /\ bottomText = <<>>
    THEN Cmd("part_006", TRUE, <<>>, <<>>, <<>>, "", "", FALSE)
    ELSE LET fontSize == height \div fontDivisor14
             topFilter == Draw(escapeForDrawtext_part_006(topText), fontSize,
                               verticalOffset)
             bottomFilter == Draw(escapeForDrawtext_part_006(bottomText),
                                  fontSize, ExprY)
             chain1 == IF topText # <<>>
                       THEN <<Lab("0:v"), topFilter, Lab("v_temp")>>
                       ELSE <<>>
             stream1 == IF topText # <<>> THEN "v_temp" ELSE "0:v"
             chain2 == IF bottomText # <<>>
                       THEN chain1 \o <<Lab(stream1), bottomFilter, Lab("v_out")>>
                       ELSE chain1
             stream2 == IF bottomText # <<>> THEN "v_out" ELSE stream1
             chain3 == IF stream2 = "v_temp"
                       THEN chain2 \o <<Lab("v_temp"), Flt("null", ""),
                                        Lab("v_out")>>
                       ELSE chain2
         IN  Cmd("part_006", FALSE, <<"video">>, chain3, <<"[v_out]">>, "libx264", "copy",
                 FALSE)

\* part_001 escapeTextSimple
escapeTextSimple(text) ==
    IF text = <<>> THEN <<>>
    ELSE LET e1 == ReplaceAll(text, BS, <<BS, BS>>)
             e2 == ReplaceAll(e1, SQ, <<SQ, BS, BS, SQ, SQ>>)
         IN  ReplaceAll(e2, COLON, <<BS, COLON>>)

maxCharsPerLine30 == 30
brandingMinFontSize == 28

\* The height of the overlay bar image, which part_001 probes.
OverlayHeight == 100

\* part_001 addMemeText: the branding stage is left without an output label
\* and nothing is mapped.
addMemeText_part_001(topText, bottomText, projectName, height) ==
    LET needsMemeText == topText # <<>> \/ bottomText # <<>>
        topLines == wrappedLines(wrapText_part_001(topText, maxCharsPerLine30))
        bottomLines == wrappedLines(wrapText_part_001(bottomText,
                                                      maxCharsPerLine30))
        maxLines == IF needsMemeText
                    THEN Max(Max(Len(topLines), Len(bottomLines)), 1)
                    ELSE 1
        fontSize == fontSizeFor(height, maxLines)
        lineHeight == fontSize + lineGap
        topLits == IF needsMemeText /\ topText # <<>>
                   THEN [i \in 1..Len(topLines) |-> escapeTextSimple(topLines[i])]
                   ELSE <<>>
        bottomLits == IF needsMemeText /\ bottomText # <<>>
                      THEN [i \in 1..Len(bottomLines) |->
                               escapeTextSimple(bottomLines[i])]
                      ELSE <<>>
        topParts == lineParts(topLits, "base", "txt", 1, fontSize,
                              verticalOffset, lineHeight)
        cur1 == labelAfter(topLits, "base", "txt", 1)
        counter1 == 1 + Len(topLits)
        bottomParts == lineParts(bottomLits, cur1, "txt", counter1, fontSize,
                                 height - Len(bottomLines) * lineHeight
                                     - (OverlayHeight + brandingMargin),
                                 lineHeight)
        cur2 == labelAfter(bottomLits, cur1, "txt", counter1)
        brandingText == IF projectName # <<>>
                        THEN lunaFun \o <<"/">> \o projectName
                        ELSE lunaFun
        filterParts ==
            << <<Flt("movie", ""), Lab("ovr")>>,
               <<Lab("0:v"), Lab("ovr"), Flt("overlay", ""), Lab("base")>> >>
            \o topParts \o bottomParts
            \o << <<Lab(cur2),
                    Draw(escapeTextSimple(brandingText),
                         Max(brandingMinFontSize, (fontSize * 9) \div 10),
                         ExprY)>> >>
    IN  Cmd("part_001", FALSE, <<"video">>, Join(filterParts, <<Sep>>), <<>>, "libx264",
            "copy", FALSE)

----------------------------------------------------------------------------
(* The audio graphs *)

RawIn_Shifted(index, kind) == ToString(index + 1) \o ":" \o kind

RawIn(index, kind) == ToString(index) \o ":" \o kind

\* server.js mixVideo, the branch for several audio inputs: the labels,
\* "volume=0.3" after the last one when it is the music, and
\* "amerge=inputs=n[outa]" are joined without a separator.
mergeFilterComplex(filterInputs, hasMusic) ==
    [i \in 1..Len(filterInputs) |-> Lab(filterInputs[i])]
    \o (IF hasMusic
        THEN <<Flt("volume",
                   "0.3amerge=inputs=" \o ToString(Len(filterInputs)))>>
        ELSE <<Mix("amerge", "", Len(filterInputs))>>)
    \o <<Lab("outa")>>

\* mixFilterComplex without its single-input branch.
mixFilterComplex_AlwaysMerge(filterInputs, hasMusic) ==
    mergeFilterComplex(filterInputs, hasMusic)

\* server.js mixVideo, the graph for a non-empty filterInputs.
mixFilterComplex(filterInputs, hasMusic) ==
    IF Len(filterInputs) = 1
    THEN IF hasMusic
         THEN <<Lab(filterInputs[1]), Flt("volume", "0.3"), Lab("outa")>>
         ELSE <<Lab(filterInputs[1]), Flt("acopy", ""), Lab("outa")>>
    ELSE mergeFilterComplex(filterInputs, hasMusic)

\* mixVideo with the video stream re-encoded.
mixVideo_Reencoding(hasAudio, hasMusic) ==
    Cmd("server.js", FALSE, <<"video", "music">>,
        <<Lab(RawIn(1, "a")), Flt("volume", "0.3"), Lab("outa")>>,
        <<"0:v", "[outa]">>, "libx264", "aac", TRUE)

\* server.js mixVideo, from hasAudio / hasMusic to the invocation.
mixVideo(hasAudio, hasMusic) ==
    IF ~hasAudio /\ ~hasMusic
    THEN Cmd("server.js", TRUE, <<>>, <<>>, <<>>, "", "", FALSE)
    ELSE LET inputs == <<"video">>
                       \o (IF hasAudio THEN <<"dialogue">> ELSE <<>>)
                       \o (IF hasMusic THEN <<"music">> ELSE <<>>)
             musicIndex == IF hasAudio THEN 2 ELSE 1
             filterInputs == (IF hasAudio THEN <<RawIn(1, "a")>> ELSE <<>>)
                             \o (IF hasMusic THEN <<RawIn(musicIndex, "a")>>
                                 ELSE <<>>)
         IN  Cmd("server.js", FALSE, inputs,
                 mixFilterComplex(filterInputs, hasMusic),
                 <<"0:v", "[outa]">>, "copy", "aac", TRUE)

\* 2.5 s, in half seconds
fadeDuration == 5

\* part_000 mixVideo; musicDuration is the probed duration in half seconds.
mixVideo_part_000(hasDialogue, hasMusic, musicDuration) ==
    LET fadeOutStart == musicDuration - fadeDuration
        musicChain(index, out) ==
            <<Lab(RawIn(index, "a")), Fade("in", 0), Comma,
              Fade("out", fadeOutStart), Comma, Flt("volume", "0.85"),
              Lab(out)>>
    IN  IF hasDialogue /\ hasMusic
        THEN Cmd("part_000", FALSE, <<"video", "dialogue", "music">>,
                 Join(<< <<Lab("1:a"), Flt("volume", "1.0"), Lab("dialogue")>>,
                         musicChain(2, "music"),
                         <<Lab("dialogue"), Lab("music"),
                           Mix("amix", "duration=longest", 2), Lab("aout")>> >>,
                      <<Sep>>),
                 <<"0:v", "[aout]">>, "copy", "aac", TRUE)
        ELSE IF hasDialogue
        THEN Cmd("part_000", FALSE, <<"video", "dialogue">>, <<>>,
                 <<"0:v", "1:a">>, "copy", "aac", FALSE)
        ELSE IF hasMusic
        THEN Cmd("part_000", FALSE, <<"video", "music">>, musicChain(1, "aout"),
                 <<"0:v", "[aout]">>, "copy", "aac", TRUE)
        ELSE Cmd("part_000", FALSE, <<"video">>, <<>>, <<>>, "copy", "copy",
                 FALSE)

\* part_001 mixVideo: the same text as part_000's.
mixVideo_part_001(hasDialogue, hasMusic, musicDuration) ==
    [mixVideo_part_000(hasDialogue, hasMusic, musicDuration)
        EXCEPT !.by = "part_001"]

\* part_004 addAudioAndOverlayToVideo: music is always attached; the video's
\* own audio joins the mix when the probe finds one.
addAudioAndOverlayToVideo(hasDialogue, videoHasAudio, hasOverlay) ==
    LET musicIndex == 1
        dialogueIndex == 2
        overlayIndex == IF hasDialogue THEN 3 ELSE 2
        inputs == <<"video", "music">>
                  \o (IF hasDialogue THEN <<"dialogue">> ELSE <<>>)
                  \o (IF hasOverlay THEN <<"overlay">> ELSE <<>>)
        overlayFilters ==
            IF hasOverlay
            THEN << <<Lab(RawIn(overlayIndex, "v")), Flt("scale", "150:-1"),
                      Lab("overlay")>>,
                    <<Lab("0:v"), Lab("overlay"), Flt("overlay", "format=auto"),
                      Comma, Flt("format", "yuv420p"), Lab("v")>> >>
            ELSE <<>>
        audioInputs == <<"music">>
                       \o (IF hasDialogue THEN <<"dialogue">> ELSE <<>>)
                       \o (IF videoHasAudio THEN <<"videoaudio">> ELSE <<>>)
        audioFilters ==
            << <<Lab(RawIn(musicIndex, "a")), Flt("volume", "-1.5dB"),
                 Lab("music")>> >>
            \o (IF hasDialogue
                THEN << <<Lab(RawIn(dialogueIndex, "a")), Flt("volume", "0dB"),
                          Lab("dialogue")>> >>
                ELSE <<>>)
            \o (IF videoHasAudio
                THEN << <<Lab("0:a"), Flt("volume", "0dB"), Lab("videoaudio")>> >>
                ELSE <<>>)
        mixFilter ==
            IF Len(audioInputs) > 1
            THEN [i \in 1..Len(audioInputs) |-> Lab(audioInputs[i])]
                 \o <<Mix("amix", "duration=shortest", Len(audioInputs)),
                      Lab("mixedaudio")>>
            ELSE <<Lab("music"), Flt("acopy", ""), Lab("mixedaudio")>>
    IN  Cmd("part_004", FALSE, inputs,
            Join(overlayFilters \o audioFilters \o <<mixFilter>>, <<Sep>>),
            <<IF hasOverlay THEN "[v]" ELSE "0:v", "[mixedaudio]">>,
            IF hasOverlay THEN "libx264" ELSE "copy", "aac", TRUE)

----------------------------------------------------------------------------
(* Reading a graph back from its tokens *)

FilterPos(g) == {i \in 1..Len(g) : g[i].k = "filter"}

AllLabels(g, a, b) == \A q \in a..b : g[q].k = "label"

\* The labels written right before a filter are its inputs, the labels right
\* after it its outputs.
InPos(g, i) == {m \in 1..(i - 1) : AllLabels(g, m, i - 1)}
OutPos(g, i) == {m \in (i + 1)..Len(g) : AllLabels(g, i + 1, m)}

InsOf(g, i) == {g[m].v : m \in InPos(g, i)}
OutsOf(g, i) == {g[m].v : m \in OutPos(g, i)}

IsRawInput(l) ==
    \E n \in 0..3 : l = RawIn(n, "v") \/ l = RawIn(n, "a")

Range(f) == {f[i] : i \in DOMAIN f}

LastFilter(g) == CHOOSE i \in FilterPos(g) : \A j \in FilterPos(g) : j <= i

\* Two filters that follow each other have a ; or a , between them.
StagesSeparated(g) ==
    \A i, j \in FilterPos(g) :
        i < j => \E m \in (i + 1)..(j - 1) : g[m].k \in {"sep", "comma"}

\* A label read by a filter is a raw input or was written by an earlier filter.
InputsAssigned(g) ==
    \A i \in FilterPos(g) : \A l \in InsOf(g, i) :
        IsRawInput(l) \/ \E j \in FilterPos(g) : j < i /\ l \in OutsOf(g, j)

\* No label is written twice.
OutputsDistinct(g) ==
    \A i, j \in FilterPos(g) : \A m \in OutPos(g, i), n \in OutPos(g, j) :
        m # n => g[m].v # g[n].v

\* What is mapped from the graph is what its last filter writes.
SinkIsMapped(cmd) ==
    {m \in Range(cmd.maps) : ~IsRawInput(m)}
        = {"[" \o l \o "]" : l \in OutsOf(cmd.graph, LastFilter(cmd.graph))}

GraphLabelIntegrity(cmd) ==
    /\ StagesSeparated(cmd.graph)
    /\ InputsAssigned(cmd.graph)
    /\ OutputsDistinct(cmd.graph)
    /\ SinkIsMapped(cmd)

AudioOps == {"volume", "acopy", "afade", "amix", "amerge"}
MixOps == {"amix", "amerge"}

AudioFilters(g) == {i \in FilterPos(g) : g[i].v \in AudioOps}

\* The last token of the chain that starts at p.
ChainEnd(g, p) ==
    SetMin({q \in p..Len(g) : g[q].k = "sep"} \cup {Len(g) + 1}) - 1

\* A chain [k:a] volume/fade filters [out] of its own, starting at p.
IsTrackStage(g, p) ==
    LET e == ChainEnd(g, p)
    IN  /\ p = 1 \/ g[p - 1].k = "sep"
        /\ g[p].k = "label" /\ \E n \in 1..3 : g[p].v = RawIn(n, "a")
        /\ e > p + 1 /\ g[e].k = "label"
        /\ \A q \in (p + 1)..(e - 1) :
               \/ g[q].k = "comma"
               \/ g[q].k = "filter" /\ g[q].v \in {"volume", "afade"}
        /\ g[p + 1].k = "filter"

TrackStages(g) == {p \in 1..Len(g) : IsTrackStage(g, p)}

\* Two track stages with different output labels, and one mix as the last
\* filter: it declares two inputs and reads exactly the two stage outputs.
TwoTrackMixWellFormed(g) ==
    /\ Cardinality({i \in FilterPos(g) : g[i].v \in MixOps}) = 1
    /\ \E p1, p2 \in TrackStages(g) :
          /\ g[p1].v # g[p2].v
          /\ g[ChainEnd(g, p1)].v # g[ChainEnd(g, p2)].v
          /\ LET i == LastFilter(g)
             IN  /\ g[i].v \in MixOps
                 /\ g[i].inputs = 2
                 /\ Cardinality(InPos(g, i)) = 2
                 /\ InsOf(g, i) = {g[ChainEnd(g, p1)].v, g[ChainEnd(g, p2)].v}

\* No mix or merge, and no audio filter that reads more than one label.
SingleInputOnly(g) ==
    \A i \in AudioFilters(g) :
        /\ g[i].v \notin MixOps
        /\ Cardinality(InPos(g, i)) <= 1

----------------------------------------------------------------------------
(* The request handlers, as the steps they await in order *)

\* /tmp (or the job directory) and the directory the download route serves.
TempFiles ==
    {"video", "dialogue", "music", "music_trimmed", "overlay_image",
     "with_text"}
ServedFiles == {"out_without", "out_with", "final"}
\* What multer stored under /tmp/uploads before the handler ran.
UploadFiles == {"upload_video", "upload_dialogue", "upload_music"}
JobFiles == TempFiles \cup ServedFiles \cup UploadFiles

Step(op, from, file, files, ok, cmd) ==
    [op |-> op, from |-> from, file |-> file, files |-> files, ok |-> ok,
     cmd |-> cmd]

Supplied(field) == field # "none"

\* The fields of a request body the handlers read.
Request(video, dialogue, music, text, srcAudio, overlay, username, tweet) ==
    [video |-> video, dialogue |-> dialogue, music |-> music, text |-> text,
     srcAudio |-> srcAudio, overlay |-> overlay, username |-> username,
     tweet |-> tweet]

NoRequest == Request("none", "none", "none", FALSE, FALSE, FALSE, FALSE, FALSE)

\* The caption a request of the job harness carries when it carries one.
JobCaption == <<"h", "i">>
JobFrameHeight == 720

\* server.js mixVideo as awaited steps: plain copy without tracks, else the
\* dimension probe, the duration probe and the render.
mixVideoSteps(videoPath, audioPath, musicPath, outputPath) ==
    LET hasAudio == Supplied(audioPath)
        hasMusic == Supplied(musicPath)
    IN  IF ~hasAudio /\ ~hasMusic
        THEN <<Step("copy", videoPath, outputPath, {}, TRUE, NoCmd)>>
        ELSE <<Step("probe", videoPath, "", {}, TRUE, NoCmd),
               Step("probe", videoPath, "", {}, TRUE, NoCmd),
               Step("render", videoPath, outputPath, {}, TRUE,
                    mixVideo(hasAudio, hasMusic))>>

\* addMemeText whose render is started and not awaited.
addMemeTextSteps_NotAwaited(videoPath, outputPath, topText) ==
    <<Step("probe", videoPath, "", {}, TRUE, NoCmd),
      Step("exists", "overlay", "", {}, TRUE, NoCmd),
      Step("probe", "overlay", "", {}, TRUE, NoCmd)>>

\* server.js addMemeText as awaited steps: the dimension probe, the check
\* that the overlay image exists, its probe and the render.
addMemeTextSteps(videoPath, outputPath, topText) ==
    <<Step("probe", videoPath, "", {}, TRUE, NoCmd),
      Step("exists", "overlay", "", {}, TRUE, NoCmd),
      Step("probe", "overlay", "", {}, TRUE, NoCmd),
      Step("render", videoPath, outputPath, {}, TRUE,
           addMemeText(topText, <<>>, <<>>, JobFrameHeight))>>

\* server.js processVideoRequest (POST /process-video and /api/combine).
processVideoRequest(req) ==
    LET final_stitched_video == req.video
        final_dialogue == req.dialogue
        final_music_url == req.music
        meme_top_text == IF req.text THEN JobCaption ELSE <<>>
        needsMemeText == meme_top_text # <<>>
        withAudio == Supplied(final_dialogue) \/ Supplied(final_music_url)
    IN  <<Step("mkdir", "", "", {}, TRUE, NoCmd),
          Step("validate", "", "", {}, Supplied(final_stitched_video), NoCmd),
          Step("download", "", "video", {}, TRUE, NoCmd)>>
        \o (IF Supplied(final_dialogue)
            THEN <<Step("download", "", "dialogue", {}, TRUE, NoCmd)>>
            ELSE <<>>)
        \o (IF Supplied(final_music_url)
            THEN <<Step("download", "", "music", {}, TRUE, NoCmd)>>
            ELSE <<>>)
        \o (IF withAudio
            THEN mixVideoSteps("video", final_dialogue, final_music_url,
                               "out_without")
            ELSE <<Step("copy", "video", "out_without", {}, TRUE, NoCmd)>>)
        \o addMemeTextSteps("video", "with_text", meme_top_text)
        \o (IF withAudio
            THEN mixVideoSteps("with_text", final_dialogue, final_music_url,
                               "out_with")
            ELSE <<Step("copy", "with_text", "out_with", {}, TRUE, NoCmd)>>)
        \o <<Step("unlink", "", "",
                  {"video"}
                  \cup (IF Supplied(final_dialogue) THEN {"dialogue"} ELSE {})
                  \cup (IF Supplied(final_music_url) THEN {"music"} ELSE {})
                  \cup (IF needsMemeText THEN {"with_text"} ELSE {}),
                  TRUE, NoCmd),
             Step("respond", "", "", {"out_without", "out_with"}, TRUE,
                  NoCmd)>>

\* The music duration the duration probe of the request harness returns, in
\* half seconds.
JobMusicDuration == 10

\* part_000 addMemeText as awaited steps: the dimension probe that assumes a
\* video stream, the overlay image written and stat'ed, the render, and the
\* unlink of the image in the 'end' handler.
addMemeText_part_000 ==
    Cmd("part_000", FALSE, <<"video", "overlay_image">>,
        <<Lab("0:v"), Lab("1:v"), Flt("overlay", "0:0")>>, <<>>, "libx264",
        "copy", FALSE)

addMemeTextSteps_part_000(videoPath, outputPath) ==
    <<Step("dimensions", videoPath, "", {}, TRUE, NoCmd),
      Step("write", "", "overlay_image", {}, TRUE, NoCmd),
      Step("probe", "overlay_image", "", {}, TRUE, NoCmd),
      Step("render", videoPath, outputPath, {}, TRUE, addMemeText_part_000),
      Step("unlink", "", "", {"overlay_image"}, TRUE, NoCmd)>>

\* part_000 POST /api/combine
combine_part_000(req) ==
    LET final_stitched_video == req.video
        final_dialogue == req.dialogue
        final_music_url == req.music
        needsMemeText == req.text
        videoToMix == IF needsMemeText THEN "with_text" ELSE "video"
    IN  <<Step("mkdir", "", "", {}, TRUE, NoCmd),
          Step("validate", "", "", {}, Supplied(final_stitched_video), NoCmd),
          Step("validate", "", "", {},
               Supplied(final_dialogue) \/ Supplied(final_music_url), NoCmd),
          Step("download", "", "video", {}, TRUE, NoCmd)>>
        \o (IF Supplied(final_dialogue)
            THEN <<Step("download", "", "dialogue", {}, TRUE, NoCmd)>>
            ELSE <<>>)
        \o (IF Supplied(final_music_url)
            THEN <<Step("download", "", "music", {}, TRUE, NoCmd)>>
            ELSE <<>>)
        \o (IF needsMemeText
            THEN addMemeTextSteps_part_000("video", "with_text")
            ELSE <<>>)
        \o (IF Supplied(final_music_url)
            THEN <<Step("probe", "music", "", {}, TRUE, NoCmd)>>
            ELSE <<>>)
        \o <<Step("render", videoToMix, "final", {}, TRUE,
                  mixVideo_part_000(Supplied(final_dialogue),
                                    Supplied(final_music_url),
                                    JobMusicDuration)),
             Step("respond", "", "", {"final"}, TRUE, NoCmd)>>

\* part_002 mixVideoWithAudio
mixVideoWithAudio ==
    Cmd("part_002", FALSE, <<"video", "dialogue", "music">>,
        Join(<< <<Lab("1:a"), Flt("volume", "1.0"), Lab("dialogue")>>,
                <<Lab("2:a"), Flt("volume", "0.6"), Lab("music")>>,
                <<Lab("dialogue"), Lab("music"),
                  Mix("amix", "duration=longest", 2), Lab("aout")>> >>,
             <<Sep>>),
        <<"[aout]">>, "copy", "aac", TRUE)

\* part_002 POST /api/combine: each input is an uploaded file or a URL to
\* download; the three paths are checked after that.
combine_part_002(req) ==
    LET fetch(field, file) ==
            IF field = "url"
            THEN <<Step("download", "", file, {}, TRUE, NoCmd)>>
            ELSE <<>>
        videoPath == IF req.video = "file" THEN "upload_video" ELSE "video"
    IN  <<Step("mkdir", "", "", {}, TRUE, NoCmd)>>
        \o fetch(req.video, "video")
        \o fetch(req.dialogue, "dialogue")
        \o fetch(req.music, "music")
        \o <<Step("validate", "", "", {},
                  /\ Supplied(req.video)
                  /\ Supplied(req.dialogue)
                  /\ Supplied(req.music),
                  NoCmd),
             Step("render", videoPath, "final", {}, TRUE, mixVideoWithAudio),
             Step("respond", "", "", {"final"}, TRUE, NoCmd)>>

\* part_004 POST /api/add-overlay
addOverlay_part_004(req) ==
    LET final_stitch_video == req.video
        final_music_url == req.music
        final_dialogue == req.dialogue
        overlay_image_url == req.overlay
        jobDir == {"video", "music", "music_trimmed", "dialogue",
                   "overlay_image"}
    IN  <<Step("validate", "", "", {},
               Supplied(final_stitch_video) /\ Supplied(final_music_url),
               NoCmd),
          Step("mkdir", "", "", {}, TRUE, NoCmd),
          Step("download", "", "video", {}, TRUE, NoCmd),
          Step("download", "", "music", {}, TRUE, NoCmd),
          Step("render", "music", "music_trimmed", {}, TRUE, NoCmd)>>
        \o (IF Supplied(final_dialogue)
            THEN <<Step("download", "", "dialogue", {}, TRUE, NoCmd)>>
            ELSE <<>>)
        \o (IF overlay_image_url
            THEN <<Step("download", "", "overlay_image", {}, TRUE, NoCmd)>>
            ELSE <<>>)
        \o <<Step("render", "video", "final", {}, TRUE,
                  addAudioAndOverlayToVideo(Supplied(final_dialogue),
                                            req.srcAudio, overlay_image_url)),
             Step("probe", "final", "", {}, TRUE, NoCmd),
             Step("probe", "final", "", {}, TRUE, NoCmd),
             Step("unlink", "", "", jobDir, TRUE, NoCmd),
             Step("respond", "", "", {"final"}, TRUE, NoCmd)>>

\* server.js POST /api/create-video followed by processVideoJob, which the
\* handler starts without awaiting: the response goes out while the job
\* waits for ensureDirectories.
createVideo(req) ==
    <<Step("validate", "", "", {}, req.username /\ req.tweet, NoCmd),
      Step("status", "processing", "", {}, TRUE, NoCmd),
      Step("respond", "", "", {}, TRUE, NoCmd),
      Step("mkdir", "", "", {}, TRUE, NoCmd),
      Step("write", "", "out_without", {}, TRUE, NoCmd),
      Step("write", "", "out_with", {}, TRUE, NoCmd),
      Step("status", "stitched", "", {"out_without", "out_with"}, TRUE,
           NoCmd)>>

Handlers == {"server.js", "part_000", "part_002", "part_004", "create-video"}

Plan(handler, req) ==
    IF handler = "server.js" THEN processVideoRequest(req)
    ELSE IF handler = "part_000" THEN combine_part_000(req)
    ELSE IF handler = "part_002" THEN combine_part_002(req)
    ELSE IF handler = "part_004" THEN addOverlay_part_004(req)
    ELSE createVideo(req)

\* The audio of a render's output: a copied file keeps its streams, a -map
\* list switches the automatic stream selection off and only what it names
\* arrives in the output.
outputAudio(cmd, inAudio) ==
    LET audioLabels ==
            UNION {OutsOf(cmd.graph, i) : i \in AudioFilters(cmd.graph)}
        maps == Range(cmd.maps)
    IN  IF cmd.copied \/ cmd.maps = <<>> THEN inAudio
        ELSE IF \E l \in audioLabels : ("[" \o l \o "]") \in maps THEN "mixed"
        ELSE IF maps \cap {"0:a", "0:a?"} # {} THEN inAudio
        ELSE IF maps \cap {"1:a", "2:a"} # {} THEN "track"
        ELSE "none"

----------------------------------------------------------------------------
(* Each harness starts with the others switched off. *)

EscIdle ==
    /\ escPc = "off"
    /\ escIn = <<>>
    /\ escOut = <<>>
    /\ escBy = "none"

BuilderIdle ==
    /\ bPc = "off"
    /\ bTop = <<>>
    /\ bBottom = <<>>
    /\ bProject = <<>>
    /\ bHeight = 0
    /\ bCmd = NoCmd

MixIdle ==
    /\ mPc = "off"
    /\ mDialogue = FALSE
    /\ mMusic = FALSE
    /\ mVideoAudio = FALSE
    /\ mOverlay = FALSE
    /\ mMusicDur = 0
    /\ mCmd = NoCmd

JobIdle ==
    /\ jHandler = "none"
    /\ jReq = NoRequest
    /\ jPlan = <<>>
    /\ jPc = 0
    /\ jPhase = "off"
    /\ jDisk = [f \in JobFiles |-> "absent"]
    /\ jAudio = [f \in JobFiles |-> "none"]
    /\ jFetches = 0
    /\ jResp = 0
    /\ jFailedAt = ""
    /\ jStatus = "none"
    /\ jLinks = {}
    /\ jBody = <<>>
    /\ jSent = 0
    /\ jReported = ""
    /\ jQueries = 0

LayoutIdle ==
    /\ lPc = "off"
    /\ lHeight = 0
    /\ lLines = 0
    /\ lFont = 0

----------------------------------------------------------------------------
(* Probes *)

\* What ffmpeg.ffprobe hands its callback: err ("" for null) and the
\* metadata.streams array (empty together with an err).
Stream(codec_type, width, height) ==
    [codec_type |-> codec_type, width |-> width, height |-> height]

ProbeOutcome(err, streams) == [err |-> err, streams |-> streams]

\* A promise: "pending", "resolved" with a value or "rejected" with an error.
\* The value of a dimension probe is width and height, of hasAudioStream the
\* flag.
Pending ==
    [state |-> "pending", error |-> "", width |-> 0, height |-> 0,
     flag |-> FALSE]

Resolved(width, height, flag) ==
    [state |-> "resolved", error |-> "", width |-> width, height |-> height,
     flag |-> flag]

Rejected(error) ==
    [state |-> "rejected", error |-> error, width |-> 0, height |-> 0,
     flag |-> FALSE]

\* What running the ffprobe callback leaves behind: the promise and whether
\* an exception left the callback.
Settles(promise) == [promise |-> promise, raised |-> FALSE]

Raises == [promise |-> Pending, raised |-> TRUE]

\* metadata.streams.find(s => s.codec_type === type): the index of the
\* first such stream, 0 for undefined
find(streams, type) ==
    LET at == {i \in 1..Len(streams) : streams[i].codec_type = type}
    IN  IF at = {} THEN 0 ELSE CHOOSE i \in at : \A j \in at : i <= j

\* metadata.streams.some(s => s.codec_type === type)
some(streams, type) ==
    \E i \in 1..Len(streams) : streams[i].codec_type = type

\* getVideoDimensions of server.js: the callback of ffprobe
getVideoDimensions(outcome) ==
    IF outcome.err # "" THEN Settles(Rejected(outcome.err))
    ELSE LET videoStream == find(outcome.streams, "video")
         IN  IF videoStream = 0
             THEN Settles(Rejected("No video stream found"))
             ELSE Settles(Resolved(outcome.streams[videoStream].width,
                                   outcome.streams[videoStream].height, FALSE))

\* getVideoDimensions of part_000: videoStream.width is read with no check,
\* so an undefined videoStream is a TypeError thrown inside the callback,
\* after which neither resolve nor reject is ever called.
getVideoDimensions_part_000(outcome) ==
    IF outcome.err # "" THEN Settles(Rejected(outcome.err))
    ELSE LET videoStream == find(outcome.streams, "video")
         IN  IF videoStream = 0
             THEN Raises
             ELSE Settles(Resolved(outcome.streams[videoStream].width,
                                   outcome.streams[videoStream].height, FALSE))

\* getVideoDimensions of part_006: the same text as part_000
getVideoDimensions_part_006(outcome) ==
    getVideoDimensions_part_000(outcome)

hasAudioStream_Rejecting(outcome) ==
    IF outcome.err # "" THEN Settles(Rejected(outcome.err))
    ELSE Settles(Resolved(0, 0, some(outcome.streams, "audio")))

\* hasAudioStream of part_002: if (err) return resolve(false)
hasAudioStream_part_002(outcome) ==
    IF outcome.err # "" THEN Settles(Resolved(0, 0, FALSE))
    ELSE Settles(Resolved(0, 0, some(outcome.streams, "audio")))

\* hasAudioStream of part_004: the same with an else branch
hasAudioStream_part_004(outcome) ==
    IF outcome.err # "" THEN Settles(Resolved(0, 0, FALSE))
    ELSE Settles(Resolved(0, 0, some(outcome.streams, "audio")))

ProbeIdle ==
    /\ pPc = "off"
    /\ pBy = "none"
    /\ pOutcome = ProbeOutcome("", <<>>)
    /\ pPromise = Pending
    /\ pRaised = FALSE

----------------------------------------------------------------------------
(* The status map of the background jobs: videoJobs *)

\* The message of the error a rejected await hands the catch block.
errMessage == "err.message"

\* An entry of videoJobs; NoJob stands for the undefined that
\* videoJobs.get(uuid) returns for a key that was never set.
NoJob == [status |-> "none", downloads |-> FALSE, error_message |-> ""]

\* The entry POST /api/create-video stores under the new uuid.
newJob == [status |-> "processing", downloads |-> FALSE, error_message |-> ""]

\* videoJobs.set(uuid, job)
videoJobsSet(jobs, uuid, job) == [jobs EXCEPT ![uuid] = job]

\* A job marked stitched before its download links are stored.
markStitched_StatusOnly(jobs, uuid) ==
    [jobs EXCEPT ![uuid] = [status |-> "stitched",
                            downloads |-> jobs[uuid].downloads,
                            error_message |-> jobs[uuid].error_message]]

\* processVideoJob, after the placeholder files: job.status = 'stitched' and
\* job.downloads on the entry fetched with videoJobs.get(uuid)
markStitched(jobs, uuid) ==
    [jobs EXCEPT ![uuid] = [status |-> "stitched", downloads |-> TRUE,
                            error_message |-> jobs[uuid].error_message]]

markFailed_AllJobs(jobs, uuid) ==
    [k \in DOMAIN jobs |->
        IF jobs[k] = NoJob THEN NoJob
        ELSE [status |-> "failed", downloads |-> jobs[k].downloads,
              error_message |-> errMessage]]

\* processVideoJob, the catch block: job.status = 'failed' and
\* job.error_message on the entry fetched with videoJobs.get(uuid), if any
markFailed(jobs, uuid) ==
    IF jobs[uuid] = NoJob THEN jobs
    ELSE [jobs EXCEPT ![uuid] = [status |-> "failed",
                                 downloads |-> jobs[uuid].downloads,
                                 error_message |-> errMessage]]

MaxJobs == 2

\* The uuids uuidv4() hands out, as 1..MaxJobs; 0 stands for no job.
JobIds == 1..MaxJobs

StatusIdle ==
    /\ sJobs = [uuid \in JobIds |-> NoJob]
    /\ sPc = [uuid \in JobIds |-> "none"]
    /\ sFiles = {}
    /\ sResp = 0
    /\ sActor = 0
    /\ sTouched = {}
    /\ sBody = NoJob

WrapIdle ==
    /\ wPc = "off"
    /\ wBy = "none"
    /\ wText = <<>>
    /\ wMax = 0
    /\ wOut = <<>>

----------------------------------------------------------------------------
(* part_004 POST /api/stitch-videos: the videos of a stitch job *)

MaxVideos == 3
MaxScene == 3

SceneNumbers == 1..MaxScene

\* An element of the videos array; the URL stands for the video behind it.
Video(scene_number, final_video_url) ==
    [scene_number |-> scene_number, final_video_url |-> final_video_url]

RECURSIVE padStart(_, _, _)
\* String.prototype.padStart
padStart(str, targetLength, padString) ==
    IF Len(str) >= targetLength THEN str
    ELSE padStart(padString \o str, targetLength, padString)

\* path.join(jobDir, `video_${String(video.scene_number).padStart(3, '0')}.mp4`)
videoPathOf(video) ==
    "video_" \o padStart(ToString(video.scene_number), 3, "0") \o ".mp4"

StitchPaths == {videoPathOf(Video(n, 0)) : n \in SceneNumbers}

\* One step of the stable sort: v goes behind the elements that do not
\* compare greater (sceneA - sceneB <= 0).
insertByScene(sorted, v) ==
    LET k == Cardinality({i \in 1..Len(sorted) :
                              sorted[i].scene_number - v.scene_number <= 0})
    IN  SubSeq(sorted, 1, k) \o <<v>> \o SubSeq(sorted, k + 1, Len(sorted))

RECURSIVE sortedVideos(_)
\* videos.sort((a, b) => sceneA - sceneB), a stable sort
sortedVideos(videos) ==
    IF videos = <<>> THEN <<>>
    ELSE insertByScene(sortedVideos(SubSeq(videos, 1, Len(videos) - 1)),
                       videos[Len(videos)])

\* part_004 stitchVideos: every path an input, in the order of videoPaths,
\* and one concat over all of them.
stitchVideos(videoPaths, audioChecks) ==
    LET n == Len(videoPaths)
        hasAnyAudio == \E i \in 1..n : audioChecks[i]
        pair(i) == IF audioChecks[i]
                   THEN <<Lab(RawIn(i - 1, "v")), Lab(RawIn(i - 1, "a"))>>
                   ELSE <<Lab(RawIn(i - 1, "v")), Lab(RawIn(i - 1, "v"))>>
        single(i) == <<Lab(RawIn(i - 1, "v"))>>
    IN  IF hasAnyAudio
        THEN Cmd("part_004", FALSE, videoPaths,
                 Join([i \in 1..n |-> pair(i)], <<>>)
                     \o <<Mix("concat", "v=1:a=1", n), Lab("outv"),
                          Lab("outa")>>,
                 <<"[outv]", "[outa]">>, "", "", FALSE)
        ELSE Cmd("part_004", FALSE, videoPaths,
                 Join([i \in 1..n |-> single(i)], <<>>)
                     \o <<Mix("concat", "v=1:a=0", n), Lab("outv")>>,
                 <<"[outv]">>, "", "", FALSE)

StitchIdle ==
    /\ tPc = "off"
    /\ tVideos = <<>>
    /\ tSorted = <<>>
    /\ tDisk = [path \in StitchPaths |-> 0]
    /\ tPaths = <<>>
    /\ tCmd = NoCmd

----------------------------------------------------------------------------
(* Escaper harness *)

InitEscaper ==
    /\ escPc = "in"
    /\ escIn \in EscInputs
    /\ escOut = <<>>
    /\ escBy = "none"
    /\ BuilderIdle
    /\ MixIdle
    /\ JobIdle
    /\ LayoutIdle
    /\ ProbeIdle
    /\ StatusIdle
    /\ WrapIdle
    /\ StitchIdle

EscapeForDrawtext ==
    /\ escPc = "in"
    /\ escOut' = escapeForDrawtext(escIn)
    /\ escBy' = "server.js"
    /\ escPc' = "done"
    /\ UNCHANGED <<escIn, bVars, mVars, jVars, lVars, pVars, sVars, wVars, tVars>>

EscapeForDrawtext_part_003 ==
    /\ escPc = "in"
    /\ escOut' = escapeForDrawtext_part_003(escIn)
    /\ escBy' = "part_003"
    /\ escPc' = "done"
    /\ UNCHANGED <<escIn, bVars, mVars, jVars, lVars, pVars, sVars, wVars, tVars>>

EscapeForDrawtext_part_001 ==
    /\ escPc = "in"
    /\ escOut' = escapeForDrawtext_part_001(escIn)
    /\ escBy' = "part_001"
    /\ escPc' = "done"
    /\ UNCHANGED <<escIn, bVars, mVars, jVars, lVars, pVars, sVars, wVars, tVars>>

NextEscaper ==
    \/ EscapeForDrawtext
    \/ EscapeForDrawtext_part_003
    \/ EscapeForDrawtext_part_001

SpecEscaper == InitEscaper /\ [][NextEscaper]_vars

----------------------------------------------------------------------------
(* Caption-graph harness: addMemeText on every pair of captions *)

\* Length of the long words of the wrapped captions.
WordLen == 30

Word(n) == [i \in 1..n |-> "a"]

CaptionTexts ==
    { <<>>,
      <<SP, SP>>,
      <<"h", "i">>,
      <<"i", "t", SQ, "s">>,
      Word(WordLen) \o <<SP>> \o Word(WordLen),
      Word(WordLen) \o <<SP>> \o Word(WordLen) \o <<SP>> \o Word(WordLen)
          \o <<SP>> \o Word(WordLen) }

ProjectNames == { <<>>, <<"p">> }

FrameHeights == {240, 360, 720}

InitBuilder ==
    /\ bPc = "in"
    /\ bTop \in CaptionTexts
    /\ bBottom \in CaptionTexts
    /\ bProject \in ProjectNames
    /\ bHeight \in FrameHeights
    /\ bCmd = NoCmd
    /\ EscIdle
    /\ MixIdle
    /\ JobIdle
    /\ LayoutIdle
    /\ ProbeIdle
    /\ StatusIdle
    /\ WrapIdle
    /\ StitchIdle

AddMemeText ==
    /\ bPc = "in"
    /\ bCmd' = addMemeText(bTop, bBottom, bProject, bHeight)
    /\ bPc' = "done"
    /\ UNCHANGED <<bTop, bBottom, bProject, bHeight, escVars, mVars, jVars, lVars, pVars, sVars, wVars, tVars>>

AddMemeText_part_001 ==
    /\ bPc = "in"
    /\ bCmd' = addMemeText_part_001(bTop, bBottom, bProject, bHeight)
    /\ bPc' = "done"
    /\ UNCHANGED <<bTop, bBottom, bProject, bHeight, escVars, mVars, jVars, lVars, pVars, sVars, wVars, tVars>>

AddMemeText_part_003 ==
    /\ bPc = "in"
    /\ bCmd' = addMemeText_part_003(bTop, bBottom, bHeight)
    /\ bPc' = "done"
    /\ UNCHANGED <<bTop, bBottom, bProject, bHeight, escVars, mVars, jVars, lVars, pVars, sVars, wVars, tVars>>

AddMemeText_part_006 ==
    /\ bPc = "in"
    /\ bCmd' = addMemeText_part_006(bTop, bBottom, bHeight)
    /\ bPc' = "done"
    /\ UNCHANGED <<bTop, bBottom, bProject, bHeight, escVars, mVars, jVars, lVars, pVars, sVars, wVars, tVars>>

NextBuilder ==
    \/ AddMemeText
    \/ AddMemeText_part_001
    \/ AddMemeText_part_003
    \/ AddMemeText_part_006

SpecBuilder == InitBuilder /\ [][NextBuilder]_vars

----------------------------------------------------------------------------
(* Audio-graph harness *)

\* Longest probed music duration, in half seconds.
MaxMusicDur == 8

InitMix ==
    /\ mPc = "in"
    /\ mDialogue \in BOOLEAN
    /\ mMusic \in BOOLEAN
    /\ mVideoAudio \in BOOLEAN
    /\ mOverlay \in BOOLEAN
    /\ mMusicDur \in 0..MaxMusicDur
    /\ mCmd = NoCmd
    /\ EscIdle
    /\ BuilderIdle
    /\ JobIdle
    /\ LayoutIdle
    /\ ProbeIdle
    /\ StatusIdle
    /\ WrapIdle
    /\ StitchIdle

MixVideo ==
    /\ mPc = "in"
    /\ mCmd' = mixVideo(mDialogue, mMusic)
    /\ mPc' = "done"
    /\ UNCHANGED <<mDialogue, mMusic, mVideoAudio, mOverlay, mMusicDur,
                   escVars, bVars, jVars, lVars, pVars, sVars, wVars, tVars>>

MixVideo_part_000 ==
    /\ mPc = "in"
    /\ mCmd' = mixVideo_part_000(mDialogue, mMusic, mMusicDur)
    /\ mPc' = "done"
    /\ UNCHANGED <<mDialogue, mMusic, mVideoAudio, mOverlay, mMusicDur,
                   escVars, bVars, jVars, lVars, pVars, sVars, wVars, tVars>>

MixVideo_part_001 ==
    /\ mPc = "in"
    /\ mCmd' = mixVideo_part_001(mDialogue, mMusic, mMusicDur)
    /\ mPc' = "done"
    /\ UNCHANGED <<mDialogue, mMusic, mVideoAudio, mOverlay, mMusicDur,
                   escVars, bVars, jVars, lVars, pVars, sVars, wVars, tVars>>

\* /api/add-overlay rejects a request without music before it builds.
AddAudioAndOverlayToVideo ==
    /\ mPc = "in"
    /\ mMusic
    /\ mCmd' = addAudioAndOverlayToVideo(mDialogue, mVideoAudio, mOverlay)
    /\ mPc' = "done"
    /\ UNCHANGED <<mDialogue, mMusic, mVideoAudio, mOverlay, mMusicDur,
                   escVars, bVars, jVars, lVars, pVars, sVars, wVars, tVars>>

NextMix ==
    \/ MixVideo
    \/ MixVideo_part_000
    \/ MixVideo_part_001
    \/ AddAudioAndOverlayToVideo

SpecMix == InitMix /\ [][NextMix]_vars

----------------------------------------------------------------------------
(* Request harness: one request served by one of the handlers *)

FieldValues(handler) ==
    IF handler = "part_002" THEN {"none", "url", "file"} ELSE {"none", "url"}

Requests(handler) ==
    IF handler = "create-video"
    THEN {Request("none", "none", "none", FALSE, FALSE, FALSE, u, t) :
              u \in BOOLEAN, t \in BOOLEAN}
    ELSE {Request(v, d, m, x, a, o, FALSE, FALSE) :
              v \in FieldValues(handler), d \in FieldValues(handler),
              m \in FieldValues(handler),
              x \in IF handler \in {"server.js", "part_000"} THEN BOOLEAN
                   ELSE {FALSE},
              a \in IF handler = "part_002" THEN {TRUE} ELSE BOOLEAN,
              o \in IF handler = "part_004" THEN BOOLEAN ELSE {FALSE}}

\* What a fetched or uploaded input carries as audio.
inputAudio(req, file) ==
    IF file \in {"video", "upload_video"}
    THEN (IF req.srcAudio THEN "source" ELSE "none")
    ELSE IF file \in {"dialogue", "music", "upload_dialogue", "upload_music"}
    THEN "track"
    ELSE "none"

Uploaded(req) ==
    (IF req.video = "file" THEN {"upload_video"} ELSE {})
    \cup (IF req.dialogue = "file" THEN {"upload_dialogue"} ELSE {})
    \cup (IF req.music = "file" THEN {"upload_music"} ELSE {})

InitJob ==
    /\ jHandler \in Handlers
    /\ jReq \in Requests(jHandler)
    /\ jPlan = Plan(jHandler, jReq)
    /\ jPc = 1
    /\ jPhase = "run"
    /\ jDisk = [f \in JobFiles |->
                   IF f \in Uploaded(jReq) THEN "whole" ELSE "absent"]
    /\ jAudio = [f \in JobFiles |->
                    IF f \in Uploaded(jReq) THEN inputAudio(jReq, f)
                    ELSE "none"]
    /\ jFetches = 0
    /\ jResp = 0
    /\ jFailedAt = ""
    /\ jStatus = "none"
    /\ jLinks = {}
    /\ jBody = <<>>
    /\ jSent = 0
    /\ jReported = ""
    /\ jQueries = 0
    /\ EscIdle
    /\ BuilderIdle
    /\ MixIdle
    /\ LayoutIdle
    /\ ProbeIdle
    /\ StatusIdle
    /\ WrapIdle
    /\ StitchIdle

JobStep == jPlan[jPc]

At(op) ==
    /\ jPhase = "run"
    /\ jPc <= Len(jPlan)
    /\ JobStep.op = op

Advance ==
    /\ jPc' = jPc + 1
    /\ jPhase' = IF jPc = Len(jPlan) THEN "done" ELSE "run"
    /\ UNCHANGED jFailedAt

\* The JSON bodies of the responses.  Every rejection passes the library's
\* error object through unchanged (reject(err)), so the only text a failure
\* response carries about the failure is err.message.

rejectBody(handler) ==
    [error |-> "Missing required input"]

failureBody(handler) ==
    IF handler = "server.js"
    THEN [success |-> "false", error |-> "Processing failed",
          details |-> errMessage]
    ELSE IF handler \in {"part_000", "part_002"}
    THEN [error |-> "Processing failed", details |-> errMessage]
    ELSE [success |-> "false", error |-> errMessage, jobId |-> "jobId"]

successBody(handler) ==
    IF handler = "server.js"
    THEN [success |-> "true", message |-> "Two videos created",
          job_id |-> "id", downloads |-> "links"]
    ELSE IF handler = "part_000"
    THEN [message |-> "Combined video created", download_url |-> "link"]
    ELSE IF handler = "part_002"
    THEN [message |-> "Combined video created", file |-> "link"]
    ELSE IF handler = "part_004"
    THEN [success |-> "true", jobId |-> "jobId", downloadUrl |-> "link"]
    ELSE [uuid |-> "uuid", status |-> "processing"]

\* A rejected await: control passes to the handler's catch block.
Throw ==
    /\ jPhase' = "catch"
    /\ jFailedAt' = JobStep.op
    /\ UNCHANGED jPc

\* ensureDirectories / fs.mkdir; part_002 swallows its errors.
EnsureDirectories ==
    /\ At("mkdir")
    /\ \E ok \in BOOLEAN :
          IF ok \/ jHandler = "part_002" THEN Advance ELSE Throw
    /\ UNCHANGED <<jHandler, jReq, jPlan, jReported, jQueries, jBody, jSent, jDisk, jAudio, jFetches, jResp, jStatus,
                   jLinks, escVars, bVars, mVars, lVars, pVars, sVars, wVars, tVars>>

\* The check of the required fields: 400 and return when it fails.
Validate ==
    /\ At("validate")
    /\ IF JobStep.ok
       THEN Advance /\ UNCHANGED <<jResp, jBody, jSent>>
       ELSE /\ jResp' = 400
            /\ jBody' = rejectBody(jHandler)
            /\ jSent' = jSent + 1
            /\ jPhase' = "done"
            /\ UNCHANGED <<jPc, jFailedAt>>
    /\ UNCHANGED <<jHandler, jReq, jPlan, jReported, jQueries, jDisk, jAudio, jFetches, jStatus, jLinks,
                   escVars, bVars, mVars, lVars, pVars, sVars, wVars, tVars>>

\* downloadFile: the GET is issued, then the body is piped to the file; the
\* request can fail before the file is opened or the write can fail midway.
DownloadFile ==
    /\ At("download")
    /\ jFetches' = jFetches + 1
    /\ \E outcome \in {"whole", "partial", "absent"} :
          /\ jDisk' = [jDisk EXCEPT ![JobStep.file] = outcome]
          /\ IF outcome = "whole"
             THEN /\ jAudio' = [jAudio EXCEPT
                                  ![JobStep.file] = inputAudio(jReq, JobStep.file)]
                  /\ Advance
             ELSE Throw /\ UNCHANGED jAudio
    /\ UNCHANGED <<jHandler, jReq, jPlan, jReported, jQueries, jBody, jSent, jResp, jStatus, jLinks, escVars, bVars,
                   mVars, lVars, pVars, sVars, wVars, tVars>>

\* ffprobe of a file (getVideoDimensions, getImageDimensions, the duration
\* probes, fs.stat)
Probe ==
    /\ At("probe")
    /\ \E ok \in BOOLEAN : IF ok THEN Advance ELSE Throw
    /\ UNCHANGED <<jHandler, jReq, jPlan, jReported, jQueries, jBody, jSent, jDisk, jAudio, jFetches, jResp, jStatus,
                   jLinks, escVars, bVars, mVars, lVars, pVars, sVars, wVars, tVars>>

\* part_000 getVideoDimensions: the probe rejects on an ffprobe error and
\* resolves with the video stream's size; for a file without a video stream
\* the callback throws outside the promise, which is never settled, and the
\* handler stays at its await.
ProbeDimensions ==
    /\ At("dimensions")
    /\ \E outcome \in {"resolved", "rejected", "raised"} :
          IF outcome = "resolved" THEN Advance
          ELSE IF outcome = "rejected" THEN Throw
          ELSE /\ jPhase' = "pending"
               /\ UNCHANGED <<jPc, jFailedAt>>
    /\ UNCHANGED <<jHandler, jReq, jPlan, jReported, jQueries, jBody, jSent, jDisk, jAudio, jFetches, jResp, jStatus,
                   jLinks, escVars, bVars, mVars, lVars, pVars, sVars, wVars, tVars>>

\* fs.existsSync(OVERLAY_IMAGE_PATH), reject when it is missing
OverlayExists ==
    /\ At("exists")
    /\ \E ok \in BOOLEAN : IF ok THEN Advance ELSE Throw
    /\ UNCHANGED <<jHandler, jReq, jPlan, jReported, jQueries, jBody, jSent, jDisk, jAudio, jFetches, jResp, jStatus,
                   jLinks, escVars, bVars, mVars, lVars, pVars, sVars, wVars, tVars>>

\* .run(): the engine starts and opens its output file, or fails to start.
RenderStart ==
    /\ At("render")
    /\ \E ok \in BOOLEAN :
          IF ok
          THEN /\ jPhase' = "rendering"
               /\ jDisk' = [jDisk EXCEPT ![JobStep.file] = "partial"]
               /\ UNCHANGED <<jPc, jFailedAt>>
          ELSE Throw /\ UNCHANGED jDisk
    /\ UNCHANGED <<jHandler, jReq, jPlan, jReported, jQueries, jBody, jSent, jAudio, jFetches, jResp, jStatus, jLinks,
                   escVars, bVars, mVars, lVars, pVars, sVars, wVars, tVars>>

\* The engine's 'end' or 'error' event.
RenderEnd ==
    /\ jPhase = "rendering"
    /\ \E ok \in BOOLEAN :
          IF ok
          THEN /\ jDisk' = [jDisk EXCEPT ![JobStep.file] = "whole"]
               /\ jAudio' = [jAudio EXCEPT
                               ![JobStep.file] =
                                   outputAudio(JobStep.cmd, jAudio[JobStep.from])]
               /\ Advance
          ELSE Throw /\ UNCHANGED <<jDisk, jAudio>>
    /\ UNCHANGED <<jHandler, jReq, jPlan, jReported, jQueries, jBody, jSent, jFetches, jResp, jStatus, jLinks, escVars,
                   bVars, mVars, lVars, pVars, sVars, wVars, tVars>>

\* fsp.copyFile
CopyFile ==
    /\ At("copy")
    /\ \E ok \in BOOLEAN :
          IF ok
          THEN /\ jDisk' = [jDisk EXCEPT ![JobStep.file] = jDisk[JobStep.from]]
               /\ jAudio' = [jAudio EXCEPT ![JobStep.file] = jAudio[JobStep.from]]
               /\ Advance
          ELSE Throw /\ UNCHANGED <<jDisk, jAudio>>
    /\ UNCHANGED <<jHandler, jReq, jPlan, jReported, jQueries, jBody, jSent, jFetches, jResp, jStatus, jLinks, escVars,
                   bVars, mVars, lVars, pVars, sVars, wVars, tVars>>

\* The cleanup block: fsp.unlink of each listed file, or fs.rm of the job
\* directory.
Unlink ==
    /\ At("unlink")
    /\ jDisk' = [f \in JobFiles |->
                    IF f \in JobStep.files THEN "absent" ELSE jDisk[f]]
    /\ Advance
    /\ UNCHANGED <<jHandler, jReq, jPlan, jReported, jQueries, jBody, jSent, jAudio, jFetches, jResp, jStatus, jLinks,
                   escVars, bVars, mVars, lVars, pVars, sVars, wVars, tVars>>

\* fsp.writeFile(path, ''): the placeholder of processVideoJob
WriteFile ==
    /\ At("write")
    /\ \E ok \in BOOLEAN :
          IF ok
          THEN /\ jDisk' = [jDisk EXCEPT ![JobStep.file] = "empty"]
               /\ Advance
          ELSE Throw /\ UNCHANGED jDisk
    /\ UNCHANGED <<jHandler, jReq, jPlan, jReported, jQueries, jBody, jSent, jAudio, jFetches, jResp, jStatus, jLinks,
                   escVars, bVars, mVars, lVars, pVars, sVars, wVars, tVars>>

\* videoJobs.set(uuid, {status: 'processing'}) and the update of job.status
\* and job.downloads in processVideoJob
SetStatus ==
    /\ At("status")
    /\ jStatus' = JobStep.from
    /\ jLinks' = jLinks \cup JobStep.files
    /\ Advance
    /\ UNCHANGED <<jHandler, jReq, jPlan, jReported, jQueries, jBody, jSent, jDisk, jAudio, jFetches, jResp, escVars,
                   bVars, mVars, lVars, pVars, sVars, wVars, tVars>>

\* res.json(...) with the download links of the step
Respond ==
    /\ At("respond")
    /\ jResp' = 200
    /\ jBody' = successBody(jHandler)
    /\ jSent' = jSent + 1
    /\ jLinks' = jLinks \cup JobStep.files
    /\ Advance
    /\ UNCHANGED <<jHandler, jReq, jPlan, jReported, jQueries, jDisk, jAudio, jFetches, jStatus, escVars,
                   bVars, mVars, lVars, pVars, sVars, wVars, tVars>>

\* The catch block: res.status(500).json(...) in the request handlers,
\* job.status = 'failed' in processVideoJob.  Neither removes a file.
Catch ==
    /\ jPhase = "catch"
    /\ IF jHandler = "create-video"
       THEN jStatus' = "failed" /\ UNCHANGED <<jResp, jBody, jSent>>
       ELSE /\ jResp' = 500
            /\ jBody' = failureBody(jHandler)
            /\ jSent' = jSent + 1
            /\ UNCHANGED jStatus
    /\ jPhase' = "done"
    /\ UNCHANGED <<jHandler, jReq, jPlan, jReported, jQueries, jPc, jDisk, jAudio, jFetches, jFailedAt,
                   jLinks, escVars, bVars, mVars, lVars, pVars, sVars, wVars, tVars>>

MaxQueries == 2

\* part_004 GET /api/status/:jobId for the id of the add-overlay job: the
\* answer is 'completed' when final_video_<jobId>.mp4 can be accessed,
\* stat'ed and probed for its duration, and 'processing' whenever one of the
\* three fails.
GetStatus_part_004 ==
    /\ jHandler = "part_004"
    /\ jPhase # "off"
    /\ jQueries < MaxQueries
    /\ jQueries' = jQueries + 1
    /\ \E probed \in BOOLEAN :
          jReported' = IF jDisk["final"] # "absent" /\ probed
                       THEN "completed"
                       ELSE "processing"
    /\ UNCHANGED <<jHandler, jReq, jPlan, jPc, jPhase, jDisk, jAudio, jFetches,
                   jResp, jFailedAt, jStatus, jLinks, jBody, jSent, escVars,
                   bVars, mVars, lVars, pVars, sVars, wVars, tVars>>

NextJob ==
    \/ EnsureDirectories
    \/ Validate
    \/ DownloadFile
    \/ Probe
    \/ ProbeDimensions
    \/ OverlayExists
    \/ RenderStart
    \/ RenderEnd
    \/ CopyFile
    \/ Unlink
    \/ WriteFile
    \/ SetStatus
    \/ Respond
    \/ Catch
    \/ GetStatus_part_004

SpecJob == InitJob /\ [][NextJob]_vars

----------------------------------------------------------------------------
(* Layout harness: the font size of addMemeText as the captions grow *)

MaxHeight == 240
MaxLineCount == 6

InitLayout ==
    /\ lPc = "in"
    /\ lHeight \in 0..MaxHeight
    /\ lLines = 1
    /\ lFont = 0
    /\ EscIdle
    /\ BuilderIdle
    /\ MixIdle
    /\ JobIdle
    /\ ProbeIdle
    /\ StatusIdle
    /\ WrapIdle
    /\ StitchIdle

\* addMemeText sizes the captions for maxLines lines.
ComputeFontSize ==
    /\ lPc = "in"
    /\ lFont' = fontSizeFor(lHeight, lLines)
    /\ lPc' = "done"
    /\ UNCHANGED <<lHeight, lLines, escVars, bVars, mVars, jVars, pVars, sVars, wVars, tVars>>

\* The same frame with a caption one line longer.
OneMoreLine ==
    /\ lPc = "done"
    /\ lLines < MaxLineCount
    /\ lLines' = lLines + 1
    /\ lFont' = fontSizeFor(lHeight, lLines + 1)
    /\ UNCHANGED <<lPc, lHeight, escVars, bVars, mVars, jVars, pVars, sVars, wVars, tVars>>

NextLayout ==
    \/ ComputeFontSize
    \/ OneMoreLine

SpecLayout == InitLayout /\ [][NextLayout]_vars

----------------------------------------------------------------------------
(* Probe harness: one ffprobe call and its callback *)

MaxStreams == 2

ProbedStreams ==
    {Stream("video", 640, 360), Stream("video", 1280, 720),
     Stream("audio", 0, 0), Stream("subtitle", 0, 0)}

ProbeOutcomes ==
    {ProbeOutcome("ffprobe exited with code 1", <<>>)}
        \cup {ProbeOutcome("", streams) :
                 streams \in UNION {[1..n -> ProbedStreams] : n \in 0..MaxStreams}}

DimensionProbes == {"server.js", "part_000", "part_006"}
AudioProbes == {"hasAudioStream_part_002", "hasAudioStream_part_004"}

InitProbe ==
    /\ pPc = "in"
    /\ pBy = "none"
    /\ pOutcome \in ProbeOutcomes
    /\ pPromise = Pending
    /\ pRaised = FALSE
    /\ EscIdle
    /\ BuilderIdle
    /\ MixIdle
    /\ JobIdle
    /\ LayoutIdle
    /\ StatusIdle
    /\ WrapIdle
    /\ StitchIdle

\* The call: new Promise(...) is returned pending and ffprobe is started.
CallProbe ==
    /\ pPc = "in"
    /\ pBy' \in DimensionProbes \cup AudioProbes
    /\ pPc' = "pending"
    /\ UNCHANGED <<pOutcome, pPromise, pRaised, escVars, bVars, mVars, jVars,
                   lVars, sVars, wVars, tVars>>

\* ffprobe ends and runs the callback it was given.
Callback(by, result) ==
    /\ pPc = "pending"
    /\ pBy = by
    /\ pPromise' = result.promise
    /\ pRaised' = result.raised
    /\ pPc' = "done"
    /\ UNCHANGED <<pBy, pOutcome, escVars, bVars, mVars, jVars, lVars,
                   sVars, wVars, tVars>>

GetVideoDimensions == Callback("server.js", getVideoDimensions(pOutcome))

GetVideoDimensions_part_000 ==
    Callback("part_000", getVideoDimensions_part_000(pOutcome))

GetVideoDimensions_part_006 ==
    Callback("part_006", getVideoDimensions_part_006(pOutcome))

HasAudioStream_part_002 ==
    Callback("hasAudioStream_part_002", hasAudioStream_part_002(pOutcome))

HasAudioStream_part_004 ==
    Callback("hasAudioStream_part_004", hasAudioStream_part_004(pOutcome))

NextProbe ==
    \/ CallProbe
    \/ GetVideoDimensions
    \/ GetVideoDimensions_part_000
    \/ GetVideoDimensions_part_006
    \/ HasAudioStream_part_002
    \/ HasAudioStream_part_004

SpecProbe == InitProbe /\ [][NextProbe]_vars

----------------------------------------------------------------------------
(* Status harness: background jobs of POST /api/create-video, interleaved *)
(* at their awaits                                                        *)

InitStatus ==
    /\ sJobs = [uuid \in JobIds |-> NoJob]
    /\ sPc = [uuid \in JobIds |-> "none"]
    /\ sFiles = {}
    /\ sResp = 0
    /\ sActor = 0
    /\ sTouched = {}
    /\ sBody = NoJob
    /\ EscIdle
    /\ BuilderIdle
    /\ MixIdle
    /\ JobIdle
    /\ LayoutIdle
    /\ ProbeIdle
    /\ WrapIdle
    /\ StitchIdle

\* POST /api/create-video: 400 without username or tweet; else a new uuid,
\* the entry stored under it, and processVideoJob(uuid) run up to its first
\* await (it fetches its entry and calls ensureDirectories), then the
\* response.
CreateVideo ==
    /\ \E valid \in BOOLEAN :
           IF ~valid
           THEN /\ sResp' = 400
                /\ sActor' = 0
                /\ sTouched' = {}
                /\ UNCHANGED <<sJobs, sPc, sFiles, sBody>>
           ELSE \E uuid \in JobIds :
                   /\ sJobs[uuid] = NoJob
                   /\ sJobs' = videoJobsSet(sJobs, uuid, newJob)
                   /\ sPc' = [sPc EXCEPT ![uuid] = "ensureDirectories"]
                   /\ sResp' = 200
                   /\ sActor' = uuid
                   /\ sTouched' = {uuid}
                   /\ UNCHANGED <<sFiles, sBody>>
    /\ UNCHANGED <<escVars, bVars, mVars, jVars, lVars, pVars, wVars, tVars>>

\* A rejected await of processVideoJob(uuid): its catch block.
JobFails(uuid) ==
    /\ sJobs' = markFailed(sJobs, uuid)
    /\ sPc' = [sPc EXCEPT ![uuid] = "failed"]
    /\ sActor' = uuid
    /\ sTouched' = {uuid}
    /\ UNCHANGED <<sFiles, sResp, sBody>>

\* An await of processVideoJob(uuid) that ends well and leads to the next.
JobGoesOn(uuid, next, written) ==
    /\ sPc' = [sPc EXCEPT ![uuid] = next]
    /\ sFiles' = sFiles \cup written
    /\ sActor' = uuid
    /\ sTouched' = {}
    /\ UNCHANGED <<sJobs, sResp, sBody>>

\* await ensureDirectories() settles.
AfterEnsureDirectories ==
    /\ \E uuid \in JobIds, ok \in BOOLEAN :
           /\ sPc[uuid] = "ensureDirectories"
           /\ IF ok THEN JobGoesOn(uuid, "writeFile1", {}) ELSE JobFails(uuid)
    /\ UNCHANGED <<escVars, bVars, mVars, jVars, lVars, pVars, wVars, tVars>>

\* await fsp.writeFile(outputPathWithoutOverlay, '') settles.
AfterWriteFile1 ==
    /\ \E uuid \in JobIds, ok \in BOOLEAN :
           /\ sPc[uuid] = "writeFile1"
           /\ IF ok
              THEN JobGoesOn(uuid, "writeFile2", {<<uuid, "without_overlay">>})
              ELSE JobFails(uuid)
    /\ UNCHANGED <<escVars, bVars, mVars, jVars, lVars, pVars, wVars, tVars>>

\* await fsp.writeFile(outputPathWithOverlay, '') settles; the job then reads
\* job.projectName and marks its entry stitched.
AfterWriteFile2 ==
    /\ \E uuid \in JobIds, ok \in BOOLEAN :
           /\ sPc[uuid] = "writeFile2"
           /\ IF ok
              THEN /\ sJobs' = markStitched(sJobs, uuid)
                   /\ sPc' = [sPc EXCEPT ![uuid] = "done"]
                   /\ sFiles' = sFiles \cup {<<uuid, "with_overlay">>}
                   /\ sActor' = uuid
                   /\ sTouched' = {uuid}
                   /\ UNCHANGED <<sResp, sBody>>
              ELSE JobFails(uuid)
    /\ UNCHANGED <<escVars, bVars, mVars, jVars, lVars, pVars, wVars, tVars>>

\* GET /api/status/:uuid, a client's request: 404 for an unknown uuid, else
\* the entry.
GetStatus ==
    /\ \E uuid \in JobIds :
           /\ sResp' = IF sJobs[uuid] = NoJob THEN 404 ELSE 200
           /\ sActor' = 0
           /\ sTouched' = {uuid}
           /\ sBody' = sJobs[uuid]
           /\ UNCHANGED <<sJobs, sPc, sFiles>>
    /\ UNCHANGED <<escVars, bVars, mVars, jVars, lVars, pVars, wVars, tVars>>

NextStatus ==
    \/ CreateVideo
    \/ AfterEnsureDirectories
    \/ AfterWriteFile1
    \/ AfterWriteFile2
    \/ GetStatus

SpecStatus == InitStatus /\ [][NextStatus]_vars

----------------------------------------------------------------------------
(* Wrap harness: wrapText on every text of a few words and every budget *)

MaxWords == 3
MaxBudget == 6

WrapWords == {<<"a">>, <<"b", "b">>, <<"c", "c", "c">>}

WrapTexts ==
    {Join(words, <<SP>>) :
        words \in UNION {[1..n -> WrapWords] : n \in 1..MaxWords}}

InitWrap ==
    /\ wPc = "in"
    /\ wBy = "none"
    /\ wText \in WrapTexts
    /\ wMax \in 1..MaxBudget
    /\ wOut = <<>>
    /\ EscIdle
    /\ BuilderIdle
    /\ MixIdle
    /\ JobIdle
    /\ LayoutIdle
    /\ ProbeIdle
    /\ StatusIdle
    /\ StitchIdle

WrapText ==
    /\ wPc = "in"
    /\ wOut' = wrapText(wText, wMax)
    /\ wBy' = "server.js"
    /\ wPc' = "done"
    /\ UNCHANGED <<wText, wMax, escVars, bVars, mVars, jVars, lVars, pVars,
                   sVars, tVars>>

WrapText_part_001 ==
    /\ wPc = "in"
    /\ wOut' = wrapText_part_001(wText, wMax)
    /\ wBy' = "part_001"
    /\ wPc' = "done"
    /\ UNCHANGED <<wText, wMax, escVars, bVars, mVars, jVars, lVars, pVars,
                   sVars, tVars>>

NextWrap == WrapText \/ WrapText_part_001

SpecWrap == InitWrap /\ [][NextWrap]_vars

----------------------------------------------------------------------------
(* The claims *)

\* C1: escaper round trip: the engine reads every escaped literal back as
\* the text that was escaped, for every escaper of the repository.
C1_RoundTrip ==
    escPc = "done" => engineParse(escOut) = escIn

\* C2: validation precedes all I/O: for a request without its video field no
\* remote fetch is ever started, and unless creating the directories threw
\* the request ends answered 400.
C2_ValidationBeforeFetch ==
    (jPhase # "off" /\ jHandler # "create-video" /\ ~Supplied(jReq.video))
        => /\ jFetches = 0
           /\ (jPhase = "done" /\ jFailedAt = "") => jResp = 400

\* Every render, copy and write of the job has run and none of its steps
\* has failed.
RendersAllSucceeded ==
    /\ jFailedAt = ""
    /\ jPhase # "rendering"
    /\ \A i \in jPc..Len(jPlan) : jPlan[i].op \notin {"render", "copy", "write"}

\* C3: no partial output is downloadable: at every point, a file in the
\* served output directory belongs to a job whose renders all succeeded; a
\* job that has failed has no file there.
C3_ServedOnlyAfterSuccess ==
    \A f \in ServedFiles : jDisk[f] # "absent" => RendersAllSucceeded

\* C4: a job is reported complete (download links in the response or in the
\* job's status entry) only with each linked output file on disk and
\* non-empty.
C4_CompleteOnlyVerified ==
    \A f \in jLinks : jDisk[f] = "whole"

\* C5: guaranteed cleanup: when a job has ended, by success or by failure,
\* none of its downloaded inputs or intermediate files is left on disk.
C5_CleanupOnEveryExit ==
    jPhase = "done" => \A f \in TempFiles : jDisk[f] = "absent"

\* C6: graph label integrity: in every graph addMemeText serializes the
\* stages are separated, every input label is a raw input or an earlier
\* stage's output, no label is written twice, and the mapped label is the
\* last stage's output.
C6_GraphLabelIntegrity ==
    (bPc = "done" /\ ~bCmd.copied) => GraphLabelIntegrity(bCmd)

\* C7: empty-caption guard: no drawtext stage of an emitted graph carries an
\* empty or whitespace-only text.
C7_NoBlankDrawtext ==
    bPc = "done" =>
        \A i \in FilterPos(bCmd.graph) :
            bCmd.graph[i].v = "drawtext" => NonBlank(bCmd.graph[i].text)

\* The audio sources that reach the mixer that ran: the supplied tracks and,
\* in addAudioAndOverlayToVideo, the video's own audio stream.
AudioSources ==
    (IF mDialogue THEN 1 ELSE 0) + (IF mMusic THEN 1 ELSE 0)
    + (IF mCmd.by = "part_004" /\ mVideoAudio THEN 1 ELSE 0)

\* C8: two-track mix: with dialogue and music as the two audio sources, each
\* track has its own volume/fade stage with its own output label and the
\* graph ends in one mix that declares two inputs and reads those two labels.
C8_TwoTrackMix ==
    (mPc = "done" /\ mDialogue /\ mMusic /\ AudioSources = 2)
        => TwoTrackMixWellFormed(mCmd.graph)

\* C9, as claimed: single-track no-op: with exactly one supplied track
\* (dialogue only, or music only) the graph holds no multi-input mix or merge.
C9_SuppliedTrackNoMix ==
    (mPc = "done" /\ (mDialogue # mMusic)) => SingleInputOnly(mCmd.graph)

\* C9, amended: with exactly one audio source reaching the mixer (one
\* supplied track and, where the video's own audio is mixed in, a video
\* without an audio stream) the graph holds no multi-input mix or merge.
C9_SingleSourceNoMix ==
    (mPc = "done" /\ AudioSources = 1) => SingleInputOnly(mCmd.graph)

\* C9 witness: server.js mixVideo has built the graph of a single track.
C9_Witness ==
    /\ mPc = "done"
    /\ AudioSources = 1
    /\ mCmd.by = "server.js"
    /\ AudioFilters(mCmd.graph) # {}

\* C10: audio pass-through: a request without dialogue and music that is
\* answered with success has, in both output variants, the audio of the
\* original video.
C10_AudioPassThrough ==
    (/\ jHandler = "server.js"
     /\ jResp = 200
     /\ ~Supplied(jReq.dialogue)
     /\ ~Supplied(jReq.music))
        => \A f \in {"out_without", "out_with"} :
               jAudio[f] = inputAudio(jReq, "video")

\* C11: output length is bounded by the video: every invocation that maps a
\* supplied audio track (dialogue and/or music) also passes -shortest, so
\* the output ends with the shortest mapped stream.
C11_SuppliedAudioIsTrimmed ==
    (mPc = "done" /\ (mDialogue \/ mMusic) /\ ~mCmd.copied)
        => mCmd.shortest

\* The drawtext stages of the captions, i.e. all but the branding stage that
\* ends the graph, and the place of one among them.
CaptionDraws(g) ==
    {i \in FilterPos(g) : g[i].v = "drawtext"} \ {LastFilter(g)}

DrawRank(g, i) == Cardinality({j \in CaptionDraws(g) : j <= i})

TopLineCount == Len(wrappedLines(wrapText(bTop, 45)))
BottomLineCount == Len(wrappedLines(wrapText(bBottom, 45)))

C13_FontSizeNonIncreasing ==
    [][(lPc = "done" /\ lLines' = lLines + 1) => lFont' <= lFont]_vars

\* C13 witness: a third line has made the size smaller than the one-line size.
C13_Witness ==
    /\ lPc = "done"
    /\ lLines = 3
    /\ lFont = fontSizeFor(lHeight, 3)
    /\ lFont < lHeight \div 12

\* C14: every failure response of a job (a download, probe, build or engine
\* failure answered with status 500) carries both the name of the stage that
\* failed and a cause: some field of its body names the failed step and
\* some field holds the error's message.
BodyValues == {jBody[k] : k \in DOMAIN jBody}

\* The steps of the stages C14 lists: download, probe, build (the overlay
\* lookup of addMemeText) and engine run.
StageSteps == {"download", "probe", "exists", "render"}

C14_FailureNamesStageAndCause ==
    (jResp = 500 /\ jFailedAt \in StageSteps)
        => /\ jFailedAt \in BodyValues
           /\ errMessage \in BodyValues

\* The part of C14 the handlers do provide: the cause.
C14_FailureCarriesCause ==
    (jResp = 500 /\ jFailedAt \in StageSteps) => errMessage \in BodyValues

\* C15: a required dimension probe fails cleanly: when the probed file has
\* no video stream, or ffprobe reports an error, the probe ends rejected
\* with an error value; the promise is not left pending and no exception
\* leaves the callback.
NoVideoStream == find(pOutcome.streams, "video") = 0

C15_RequiredProbeRejects ==
    (pPc = "done" /\ pBy \in DimensionProbes
        /\ (pOutcome.err # "" \/ NoVideoStream))
        => /\ pPromise.state = "rejected"
           /\ pPromise.error # ""
           /\ ~pRaised

\* C16: the optional probe is best-effort: hasAudioStream answers false
\* when ffprobe reports an error, always settles by resolving, and no
\* exception leaves it.
C16_OptionalProbeNeverFails ==
    (pPc = "done" /\ pBy \in AudioProbes)
        => /\ pPromise.state = "resolved"
           /\ ~pRaised
           /\ pOutcome.err # "" => pPromise.flag = FALSE

C16_Witness ==
    /\ pPc = "done"
    /\ pBy = "hasAudioStream_part_004"
    /\ pOutcome.err # ""
    /\ pPromise = Resolved(0, 0, FALSE)

\* C18: the phases of a job are ordered downloading, probing, building,
\* rendering: among the steps a job has completed, no download follows a
\* probe, and no probe or graph build follows an engine render.
Completed == {i \in 1..Len(jPlan) : i < jPc}

Before(first, then) ==
    \E i, j \in Completed :
        i < j /\ jPlan[i].op \in first /\ jPlan[j].op \in then

C18_DownloadsBeforeProbes == ~Before({"probe"}, {"download"})

C18_PhasesOrdered ==
    /\ C18_DownloadsBeforeProbes
    /\ ~Before({"render"}, {"probe", "exists"})

\* C17: job isolation: under every interleaving of the background jobs, a
\* step of one job reads and writes no entry of videoJobs but the one under
\* its own uuid, and leaves the entry of every other job as it was.
C17_JobIsolation ==
    [][sActor' \in JobIds
          => /\ sTouched' \subseteq {sActor'}
             /\ \A other \in JobIds \ {sActor'} :
                    sJobs'[other] = sJobs[other]]_vars

C17_Witness ==
    /\ sActor = 2
    /\ sJobs[2].status = "failed"
    /\ sPc[1] = "writeFile2"
    /\ sJobs[1] = newJob

\* C19: each character is escaped exactly once: the output of
\* escapeForDrawtext is the in-order concatenation of one fixed replacement
\* per input character, so escape(s + t) = escape(s) + escape(t) for every
\* split of the input, and no replacement written by an earlier pass is
\* rewritten by a later one.
ReplacementOf(by, c) ==
    IF by = "server.js"
    THEN IF c = BS THEN <<BS, BS, BS, BS>>
         ELSE IF c = SQ THEN <<SQ, BS, BS, BS, BS, SQ, SQ>>
         ELSE IF c \in {COLON, LBR, RBR, COMMA, SEMI} THEN <<BS, BS, c>>
         ELSE IF c = NL THEN <<BS, "n">>
         ELSE <<c>>
    ELSE IF c = BS THEN <<BS, BS>>
         ELSE IF c = SQ THEN <<SQ, BS, BS, SQ, SQ>>
         ELSE IF c = COLON THEN <<BS, COLON>>
         ELSE IF c = NL THEN <<BS, "n">>
         ELSE <<c>>

RECURSIVE PerCharacter(_, _)
PerCharacter(by, s) ==
    IF s = <<>> THEN <<>>
    ELSE ReplacementOf(by, Head(s)) \o PerCharacter(by, Tail(s))

EscapedBy(by, s) ==
    IF by = "server.js" THEN escapeForDrawtext(s)
    ELSE escapeForDrawtext_part_001(s)

RECURSIVE LineWidth(_)
LineWidth(line) ==
    IF line = <<>> THEN 0
    ELSE Len(Head(line)) + LineWidth(Tail(line))
             + (IF Len(line) > 1 THEN 1 ELSE 0)

RECURSIVE GreedyLines(_, _, _, _)
GreedyLines(words, lines, maxCharsPerLine, trailing) ==
    IF words = <<>> THEN lines
    ELSE LET word == Head(words)
             n == Len(lines)
         IN  IF n > 0 /\ LineWidth(lines[n]) + 1 + Len(word) + trailing
                             <= maxCharsPerLine
             THEN GreedyLines(Tail(words),
                              [lines EXCEPT ![n] = Append(lines[n], word)],
                              maxCharsPerLine, trailing)
             ELSE GreedyLines(Tail(words), Append(lines, <<word>>),
                              maxCharsPerLine, trailing)

\* The lines of a wrapped text, each as its words.
WordsOfLines(wrapped) ==
    LET lines == Split(wrapped, NL)
    IN  [i \in 1..Len(lines) |-> Split(Trim(lines[i]), SP)]

\* C20 as stated: the line is measured as shown.
C20_GreedyWrapShownWidth ==
    wPc = "done"
        => WordsOfLines(wOut) = GreedyLines(Split(wText, SP), <<>>, wMax, 0)

\* C20 with the width wrapText counts: every word of the line with the
\* space written after it, so a line of several words is at most
\* maxCharsPerLine - 1 characters wide when shown.
C20_GreedyWrapCountedWidth ==
    wPc = "done"
        => WordsOfLines(wOut) = GreedyLines(Split(wText, SP), <<>>, wMax, 1)

C20_Witness ==
    /\ wPc = "done"
    /\ wBy = "server.js"
    /\ wText = <<"a", SP, "b", "b", SP, "c", "c", "c">>
    /\ wMax = 4
    /\ wOut = <<"a", SP, NL, "b", "b", SP, NL, "c", "c", "c">>

\* C21: one draw stage per line, branding last: for T top lines and B bottom
\* lines the graph of addMemeText has exactly T + B + 1 drawtext stages; they
\* carry the top lines, the bottom lines and the branding in that order, each
\* reads the label the stage before it wrote, and the branding stage is the
\* last filter of the graph and writes the label that is mapped.
AllDraws(g) == {i \in FilterPos(g) : g[i].v = "drawtext"}

NthDraw(g, n) ==
    CHOOSE i \in AllDraws(g) : Cardinality({j \in AllDraws(g) : j <= i}) = n

DrawnTexts ==
    LET topLines == wrappedLines(wrapText(bTop, maxCharsPerLine45))
        bottomLines == wrappedLines(wrapText(bBottom, maxCharsPerLine45))
        branding == IF bProject = <<>> THEN lunaFunMemes
                    ELSE lunaFunMemes \o <<"/">> \o bProject
    IN  [i \in 1..Len(topLines) |-> escapeForDrawtext(topLines[i])]
        \o [i \in 1..Len(bottomLines) |-> escapeForDrawtext(bottomLines[i])]
        \o <<escapeForDrawtext(branding)>>

C21_DrawStagePerLineBrandingLast ==
    (bPc = "done" /\ bCmd.by = "server.js") =>
        LET g == bCmd.graph
            n == TopLineCount + BottomLineCount + 1
        IN  /\ Cardinality(AllDraws(g)) = n
            /\ Len(DrawnTexts) = n
            /\ \A k \in 1..n : g[NthDraw(g, k)].text = DrawnTexts[k]
            /\ \A k \in 2..n :
                   /\ Cardinality(InsOf(g, NthDraw(g, k))) = 1
                   /\ InsOf(g, NthDraw(g, k)) = OutsOf(g, NthDraw(g, k - 1))
            /\ NthDraw(g, n) = LastFilter(g)
            /\ Range(bCmd.maps)
                   = {"[" \o l \o "]" : l \in OutsOf(g, LastFilter(g))}
            /\ Len(bCmd.maps) = 1

\* C21 witness: one top line, two bottom lines and the branding: four stages.
C21_Witness ==
    /\ bPc = "done"
    /\ bCmd.by = "server.js"
    /\ TopLineCount = 1
    /\ BottomLineCount = 2
    /\ Cardinality(AllDraws(bCmd.graph)) = 4
    /\ OutsOf(bCmd.graph, LastFilter(bCmd.graph)) = {"vout"}

\* C22: the fade-out start is clamped: for a probed music duration d and the
\* fade-out duration f, every fade-out stage written into a graph starts at
\* max(0, d - f), so never at a negative time.
FadeOuts(g) == {i \in FilterPos(g) : g[i].v = "afade" /\ g[i].args = "out"}

C22_FadeOutStartClamped ==
    (mPc = "done" /\ mMusic /\ mCmd.by \in {"part_000", "part_001"}) =>
        \A i \in FadeOuts(mCmd.graph) :
            /\ mCmd.graph[i].st = Max(0, mMusicDur - fadeDuration)
            /\ mCmd.graph[i].st >= 0

\* The part of C22 that holds: the start is d - f whenever d >= f.
C22_FadeOutStartOfLongTrack ==
    (mPc = "done" /\ mMusic /\ mCmd.by \in {"part_000", "part_001"}
        /\ mMusicDur >= fadeDuration) =>
        \A i \in FadeOuts(mCmd.graph) :
            mCmd.graph[i].st = mMusicDur - fadeDuration

\* C23: input order and raw references.  A raw reference k:a or k:v names
\* input k of the invocation, counted from 0 in the order of attachment.
RawRef(k, kind) == ToString(k) \o ":" \o kind

IsRawRef(l) == \E k \in 0..3, kind \in {"a", "v"} : l = RawRef(k, kind)

RefIndex(l) == CHOOSE k \in 0..3 : \E kind \in {"a", "v"} : l = RawRef(k, kind)

RefKind(l) == CHOOSE kind \in {"a", "v"} : l = RawRef(RefIndex(l), kind)

RawRefsOf(cmd) ==
    {cmd.graph[i].v : i \in {j \in 1..Len(cmd.graph) :
                                cmd.graph[j].k = "label"
                                /\ IsRawRef(cmd.graph[j].v)}}
        \cup {m \in Range(cmd.maps) : IsRawRef(m)}

\* The asset a raw reference reads, "none" past the attached inputs.
AssetAt(cmd, l) ==
    IF RefIndex(l) + 1 <= Len(cmd.ins) THEN cmd.ins[RefIndex(l) + 1]
    ELSE "none"

\* Every raw reference reads an attached input of its kind, every attached
\* track or image is read, and a stage whose output is named after an asset
\* (music, dialogue, overlay), or that sets the music volume of server.js,
\* reads that asset's index.
RefsNameAttachedIndex(cmd) ==
    /\ \A l \in RawRefsOf(cmd) :
           IF RefKind(l) = "a"
           THEN AssetAt(cmd, l) \in {"video", "dialogue", "music"}
           ELSE AssetAt(cmd, l) \in {"video", "overlay"}
    /\ \A p \in 2..Len(cmd.ins) :
           \E l \in RawRefsOf(cmd) : RefIndex(l) = p - 1
    /\ \A i \in FilterPos(cmd.graph) :
           \A asset \in {"music", "dialogue", "overlay"} :
               (asset \in OutsOf(cmd.graph, i)
                   /\ \E l \in InsOf(cmd.graph, i) : IsRawRef(l))
                   => \A l \in InsOf(cmd.graph, i) : AssetAt(cmd, l) = asset
    /\ \A i \in FilterPos(cmd.graph) :
           (cmd.by = "server.js" /\ cmd.graph[i].v = "volume")
               => AssetAt(cmd, cmd.graph[i - 1].v) = "music"

Rank(asset) ==
    IF asset = "video" THEN 0
    ELSE IF asset = "dialogue" THEN 1
    ELSE IF asset = "music" THEN 2
    ELSE 3

\* video, dialogue, music, overlay image, in that order among those present
FixedInputOrder(cmd) ==
    /\ cmd.ins[1] = "video"
    /\ \A p, q \in 1..Len(cmd.ins) :
           p < q => Rank(cmd.ins[p]) < Rank(cmd.ins[q])

\* the video first, no asset twice, the overlay image last
VideoFirstOverlayLast(cmd) ==
    /\ cmd.ins[1] = "video"
    /\ \A p, q \in 1..Len(cmd.ins) : p < q => cmd.ins[p] # cmd.ins[q]
    /\ \A p \in 1..Len(cmd.ins) : cmd.ins[p] = "overlay" => p = Len(cmd.ins)

Rendered == mPc = "done" /\ ~mCmd.copied

VisualOps == {"overlay", "drawtext"}

HasVisualStage(g) == \E i \in FilterPos(g) : g[i].v \in VisualOps

\* trimAudio of part_004 writes an audio file and has no video stream; its
\* step carries no invocation.
RendersVideo == jPhase = "rendering" /\ JobStep.cmd # NoCmd

StartsRender == jPhase # "rendering" /\ jPhase' = "rendering"

C25_RendersSequential ==
    [][StartsRender =>
          /\ jPhase = "run"
          /\ jDisk[JobStep.from] = "whole"
          /\ \A i \in Completed :
                 jPlan[i].op = "render" => jDisk[jPlan[i].file] = "whole"]_vars

\* C25 witness: the audio mix of the with-overlay variant in flight, reading
\* the finished caption render.
C25_Witness ==
    /\ jPhase = "rendering"
    /\ jHandler = "server.js"
    /\ JobStep.from = "with_text"
    /\ JobStep.file = "out_with"
    /\ jDisk["with_text"] = "whole"


----------------------------------------------------------------------------
(* C26: one response per request *)

\* The request harness under the scheduling of the event loop: a handler
\* that can take a step takes it.
SpecJobLive == SpecJob /\ WF_vars(NextJob)

ProcessingEndpoint == jHandler \in Handlers \ {"create-video"}

\* C26: every request to a processing endpoint receives exactly one
\* response on every path: the handler never sends a second one and
\* eventually has sent one.
C26_ExactlyOneResponse ==
    /\ [](jSent <= 1)
    /\ <>(ProcessingEndpoint => jSent = 1)

\* C26, the part that holds: no path sends two responses.
C26_NeverTwoResponses == ProcessingEndpoint => jSent <= 1

\* A handler left at the await of a probe that was never settled.
C26_PendingForever ==
    ~(jPhase = "pending" /\ jHandler = "part_000" /\ jSent = 0)


----------------------------------------------------------------------------
(* C27: lifecycle of an entry of the status map *)

StatusOf(uuid) == sJobs[uuid].status

\* The last step was GET /api/status/:uuid for this uuid.
StatusRead(uuid) == sActor = 0 /\ sTouched = {uuid}

Terminal == {"stitched", "failed"}

\* C27: a job's status starts as 'processing' and changes at most once, to
\* 'stitched' or to 'failed'; once 'stitched' or 'failed' it never changes
\* again; a status read never observes 'stitched' without the download
\* links; an unknown job id is answered with not-found.
C27_StatusLifecycle ==
    /\ [][\A uuid \in JobIds :
             /\ StatusOf(uuid) = "none" /\ StatusOf(uuid)' # "none"
                    => StatusOf(uuid)' = "processing"
             /\ StatusOf(uuid) = "processing"
                    => StatusOf(uuid)' \in {"processing"} \cup Terminal
             /\ StatusOf(uuid) \in Terminal
                    => StatusOf(uuid)' = StatusOf(uuid)]_vars
    /\ [](\A uuid \in JobIds :
             /\ sJobs[uuid].status = "stitched" => sJobs[uuid].downloads
             /\ StatusRead(uuid) =>
                    /\ sBody.status = "stitched" => sBody.downloads
                    /\ (sResp = 404) = (sJobs[uuid] = NoJob)
                    /\ sJobs[uuid] # NoJob => sResp = 200 /\ sBody = sJobs[uuid])

\* A read answered with a stitched entry and its links while another job
\* has failed.
C27_Witness ==
    \E uuid \in JobIds :
        /\ StatusRead(uuid)
        /\ sResp = 200
        /\ sBody.status = "stitched"
        /\ sBody.downloads
        /\ \E other \in JobIds \ {uuid} : StatusOf(other) = "failed"

\* A read of an id that no job carries is answered 404.
C27_UnknownIdNotFound ==
    \A uuid \in JobIds :
        StatusRead(uuid) /\ sJobs[uuid] = NoJob => sResp = 404


----------------------------------------------------------------------------
(* C28: what a status query reports of a failed job *)

\* The add-overlay job ended in its catch block.
JobFailed == jHandler = "part_004" /\ jPhase = "done" /\ jResp = 500

StatusQueried == jQueries' # jQueries

\* C28: once a job has failed, every later status query for its id reports
\* a non-'processing' outcome (failure or not-found).
C28_FailedNotReportedProcessing ==
    [][JobFailed /\ StatusQueried => jReported' # "processing"]_vars

\* A failed add-overlay job whose id was queried twice and reported as
\* 'processing' both times.
C28_FailedReportedProcessing ==
    ~(JobFailed /\ jQueries = MaxQueries /\ jReported = "processing"
      /\ jDisk["final"] = "absent")

\* C28 for the status map of server.js: a read of a job whose catch block
\* ran is answered with the entry marked 'failed'.
C28_FailedReportedFailed ==
    \A uuid \in JobIds :
        StatusRead(uuid) /\ sPc[uuid] = "failed"
            => sResp = 200 /\ sBody.status = "failed"


----------------------------------------------------------------------------
(* C29: where the caption lines are drawn *)

\* The k-th drawtext stage of the caption graph; the top lines come first,
\* then the bottom lines.
CaptionLine(k) == bCmd.graph[NthDraw(bCmd.graph, k)]

InsideFrame(draw, height) ==
    /\ 0 <= draw.y
    /\ draw.y + draw.fontsize <= height

\* C29: for every frame height and every top/bottom line count produced by
\* wrapping, each caption line's y position satisfies 0 <= y and
\* y + fontSize <= frameHeight, and every bottom caption line lies strictly
\* below the last top caption line.
C29_CaptionsInsideFrameAndApart ==
    (bPc = "done" /\ bCmd.by = "server.js") =>
        LET T == TopLineCount
            B == BottomLineCount
        IN  /\ \A k \in 1..(T + B) : InsideFrame(CaptionLine(k), bHeight)
            /\ T > 0 =>
                   \A k \in (T + 1)..(T + B) :
                       CaptionLine(k).y > CaptionLine(T).y

\* The part of C29 that holds: the top block starts inside the frame and
\* each block runs downwards, a line height apart.
C29_BlocksRunDownwards ==
    (bPc = "done" /\ bCmd.by = "server.js") =>
        LET T == TopLineCount
            B == BottomLineCount
        IN  /\ \A k \in 1..T : CaptionLine(k).y >= verticalOffset
            /\ \A k \in (1..(T + B)) \ {1, T + 1} :
                   CaptionLine(k).y
                       = CaptionLine(k - 1).y + CaptionLine(k).fontsize + lineGap

\* Four top and four bottom lines on a frame 240 high: the first bottom
\* line is drawn above the last top line.
C29_BlocksOverlap ==
    ~(/\ bPc = "done"
      /\ bCmd.by = "server.js"
      /\ bHeight = 240
      /\ TopLineCount = 4
      /\ BottomLineCount = 4
      /\ CaptionLine(5).y < CaptionLine(4).y)


----------------------------------------------------------------------------
(* Stitch harness: one stitch job from the sort to the concat *)

\* The requests: up to MaxVideos videos, any scene numbers, the i-th video
\* behind URL i.
StitchRequests ==
    UNION {{[i \in 1..n |-> Video(scenes[i], i)] :
               scenes \in [1..n -> SceneNumbers]} : n \in 1..MaxVideos}

InitStitch ==
    /\ tPc = "sort"
    /\ tVideos \in StitchRequests
    /\ tSorted = <<>>
    /\ tDisk = [path \in StitchPaths |-> 0]
    /\ tPaths = <<>>
    /\ tCmd = NoCmd
    /\ EscIdle
    /\ BuilderIdle
    /\ MixIdle
    /\ JobIdle
    /\ LayoutIdle
    /\ ProbeIdle
    /\ StatusIdle
    /\ WrapIdle

\* const sortedVideos = videos.sort(...)
SortVideos ==
    /\ tPc = "sort"
    /\ tSorted' = sortedVideos(tVideos)
    /\ tPc' = "download"
    /\ UNCHANGED <<tVideos, tDisk, tPaths, tCmd, escVars, bVars, mVars, jVars,
                   lVars, pVars, sVars, wVars>>

\* One round of the download loop: the next sorted video is written to the
\* path made from its scene number and the path is pushed; a failed
\* download ends the job in the catch block.
DownloadVideo ==
    /\ tPc = "download"
    /\ LET i == Len(tPaths) + 1
           video == tSorted[i]
           videoPath == videoPathOf(video)
       IN  \E ok \in BOOLEAN :
              IF ok
              THEN /\ tDisk' = [tDisk EXCEPT ![videoPath] = video.final_video_url]
                   /\ tPaths' = Append(tPaths, videoPath)
                   /\ tPc' = IF i = Len(tSorted) THEN "stitch" ELSE "download"
              ELSE /\ tPc' = "failed"
                   /\ UNCHANGED <<tDisk, tPaths>>
    /\ UNCHANGED <<tVideos, tSorted, tCmd, escVars, bVars, mVars, jVars, lVars,
                   pVars, sVars, wVars>>

\* await stitchVideos(videoPaths, stitchedVideoPath)
StitchVideos ==
    /\ tPc = "stitch"
    /\ \E audioChecks \in [1..Len(tPaths) -> BOOLEAN], ok \in BOOLEAN :
          IF ok
          THEN /\ tCmd' = stitchVideos(tPaths, audioChecks)
               /\ tPc' = "done"
          ELSE /\ tPc' = "failed"
               /\ UNCHANGED tCmd
    /\ UNCHANGED <<tVideos, tSorted, tDisk, tPaths, escVars, bVars, mVars,
                   jVars, lVars, pVars, sVars, wVars>>

NextStitch ==
    \/ SortVideos
    \/ DownloadVideo
    \/ StitchVideos

SpecStitch == InitStitch /\ [][NextStitch]_vars

----------------------------------------------------------------------------
(* C30: the inputs of a stitch job *)

\* The video each input of the concat holds when the engine reads it.
ConcatVideos == [i \in 1..Len(tCmd.ins) |-> tDisk[tCmd.ins[i]]]

SceneOf(url) == tVideos[url].scene_number

\* C30: in a stitch job every input video is downloaded to its own file
\* path and the concatenation lists each input exactly once, in ascending
\* scene_number order, whatever the order in the request and also when two
\* videos carry the same scene_number.
C30_StitchInputsDistinctOrdered ==
    tPc = "done" =>
        /\ \A i, j \in 1..Len(tPaths) : i # j => tPaths[i] # tPaths[j]
        /\ Len(tCmd.ins) = Len(tVideos)
        /\ \A url \in 1..Len(tVideos) :
               Cardinality({i \in 1..Len(ConcatVideos) :
                                ConcatVideos[i] = url}) = 1
        /\ \A i \in 1..(Len(ConcatVideos) - 1) :
               SceneOf(ConcatVideos[i]) <= SceneOf(ConcatVideos[i + 1])

DistinctScenes ==
    \A i, j \in 1..Len(tVideos) :
        i # j => tVideos[i].scene_number # tVideos[j].scene_number

\* The part of C30 that holds: with pairwise different scene numbers every
\* video has its own path and is listed once, in ascending order.
C30_DistinctScenesStitchedInOrder ==
    (tPc = "done" /\ DistinctScenes) =>
        /\ \A i, j \in 1..Len(tPaths) : i # j => tPaths[i] # tPaths[j]
        /\ Len(tCmd.ins) = Len(tVideos)
        /\ \A url \in 1..Len(tVideos) :
               Cardinality({i \in 1..Len(ConcatVideos) :
                                ConcatVideos[i] = url}) = 1
        /\ \A i \in 1..(Len(ConcatVideos) - 1) :
               SceneOf(ConcatVideos[i]) < SceneOf(ConcatVideos[i + 1])

\* Two videos of scene 1: the second download replaced the first, and the
\* concat reads the second video twice.
C30_SameSceneOverwritten ==
    ~(/\ tPc = "done"
      /\ Len(tVideos) = 2
      /\ tVideos[1].scene_number = 1
      /\ tVideos[2].scene_number = 1
      /\ tCmd.ins = <<"video_001.mp4", "video_001.mp4">>
      /\ ConcatVideos = <<2, 2>>)

====
